---- MODULE Spec2Model ----
(***************************************************************************)
(* Finance platform: the financial aggregation engine of the frontend      *)
(* script (Profit & Loss table, month aggregators, series aligner, invoice *)
(* totaler) over the in-memory ledger `state`.                             *)
(*                                                                         *)
(* JavaScript strings that the code compares, sorts, lower-cases or parses *)
(* are modelled as sequences of UTF-16 code units; strings that are only   *)
(* tested for equality and truthiness (expense type ids and names, row     *)
(* labels) are TLA+ strings.  Money is counted in whole units (integers).  *)
(***************************************************************************)
EXTENDS Integers, Sequences, FiniteSets, TLC

\* The frontend: the ledger collections of `state`, the host's time zone, the
\* call being followed and what it returned.  The server: the lowdb database
\* (file and in-memory data, writes in flight), the requests being handled
\* and process.env.NODE_ENV ("" in the browser).
VARIABLES sellEntries, invoices, otherExpenses, expenseTypes, tzOffset, call, ret, db, reqs,
          NODE_ENV

vars == <<sellEntries, invoices, otherExpenses, expenseTypes, tzOffset, call, ret, db, reqs,
          NODE_ENV>>

(***************************************************************************)
(* Bounds of the model                                                     *)
(***************************************************************************)
\* Records in the ledger (sales, invoices and other expenses together).
MaxLedger == 2

\* Line items of the invoice handed to the Invoice Totaler.
MaxItems == 2

\* Series handed to the Series Aligner.
MaxSeries == 2

(***************************************************************************)
(* JavaScript strings as code-unit sequences                               *)
(***************************************************************************)
Minus == 45

Zero == 48

IsDigit(c) == c >= 48 /\ c <= 57

\* a < b for JavaScript strings: lexicographic on code units, a proper
\* prefix being smaller.
RECURSIVE StrLessFrom(_, _, _)
StrLessFrom(a, b, k) ==
  IF k > Len(b) THEN FALSE
  ELSE IF k > Len(a) THEN TRUE
  ELSE IF a[k] < b[k] THEN TRUE
  ELSE IF a[k] > b[k] THEN FALSE
  ELSE StrLessFrom(a, b, k + 1)

StrLess(a, b) == StrLessFrom(a, b, 1)

StrGreater(a, b) == StrLess(b, a)

\* String(n) for a non-negative integer n.
RECURSIVE NumToStr(_)
NumToStr(n) ==
  IF n < 10 THEN <<Zero + n>>
  ELSE Append(NumToStr(n \div 10), Zero + (n % 10))

\* s.padStart(2, '0')
padStart2(s) == IF Len(s) < 2 THEN <<Zero>> \o s ELSE s

\* The year field of a date input's value: four digits, zero-padded.
RECURSIVE padStart4(_)
padStart4(s) == IF Len(s) < 4 THEN padStart4(<<Zero>> \o s) ELSE s

\* c.toLowerCase() on one code unit (ASCII letters).
toLowerCaseUnit(c) == IF c >= 65 /\ c <= 90 THEN c + 32 ELSE c

toLowerCase(s) == [k \in 1..Len(s) |-> toLowerCaseUnit(s[k])]

STR_product == <<112, 114, 111, 100, 117, 99, 116>>

STR_Product == <<80, 114, 111, 100, 117, 99, 116>>

STR_PRODUCT == <<80, 82, 79, 68, 85, 67, 84>>

STR_service == <<115, 101, 114, 118, 105, 99, 101>>

STR_Unknown == <<85, 110, 107, 110, 111, 119, 110>>

STR_abc == <<97, 98, 99>>

\* The stored form of a calendar date: zero-padded YYYY-MM-DD.
DateStr(y, m, d) ==
  padStart4(NumToStr(y)) \o <<Minus>> \o padStart2(NumToStr(m))
    \o <<Minus>> \o padStart2(NumToStr(d))

(***************************************************************************)
(* JavaScript values held in record fields                                 *)
(***************************************************************************)
Num(n) == [t |-> "num", v |-> n, s |-> <<>>]

Str(s) == [t |-> "str", v |-> 0, s |-> s]

Undefined == [t |-> "undef", v |-> 0, s |-> <<>>]

NaN == [t |-> "nan", v |-> 0, s |-> <<>>]

\* Truthiness, as used by `x || y`.
Truthy(x) ==
  CASE x.t = "num" -> x.v # 0
    [] x.t = "str" -> x.s # <<>>
    [] OTHER -> FALSE

\* x || y
JsOr(x, y) == IF Truthy(x) THEN x ELSE y

AllDigits(s) == \A k \in 1..Len(s) : IsDigit(s[k])

RECURSIVE DigitsToNat(_)
DigitsToNat(s) ==
  IF s = <<>> THEN 0 ELSE 10 * DigitsToNat(SubSeq(s, 1, Len(s) - 1)) + (s[Len(s)] - Zero)

\* Number(x): a number is itself, the empty string is 0, a decimal integer
\* literal (optionally signed) is its value, anything else is NaN.
ToNumber(x) ==
  CASE x.t = "num" -> x
    [] x.t = "str" ->
         IF x.s = <<>> THEN Num(0)
         ELSE IF AllDigits(x.s) THEN Num(DigitsToNat(x.s))
         ELSE IF Head(x.s) = Minus /\ Len(x.s) > 1 /\ AllDigits(Tail(x.s))
           THEN Num(0 - DigitsToNat(Tail(x.s)))
         ELSE NaN
    [] OTHER -> NaN

parseNumber(input) ==
  LET n == ToNumber(input) IN IF n.t = "num" THEN n.v ELSE 0

(***************************************************************************)
(* Date: new Date(str), getMonth(), getFullYear()                          *)
(***************************************************************************)
InvalidDate == [valid |-> FALSE, y |-> 0, m |-> 0, d |-> 0]

DaysInMonth(y, m) ==
  IF m \in {4, 6, 9, 11} THEN 30
  ELSE IF m = 2 THEN (IF y % 4 = 0 /\ (y % 100 # 0 \/ y % 400 = 0) THEN 29 ELSE 28)
  ELSE 31

\* new Date(str) for a date-only string: the ISO form YYYY-MM-DD denotes
\* midnight UTC of that calendar date; anything else is an Invalid Date.
ParseDate(str) ==
  IF Len(str) = 10 /\ str[5] = Minus /\ str[8] = Minus
     /\ AllDigits(SubSeq(str, 1, 4)) /\ AllDigits(SubSeq(str, 6, 7))
     /\ AllDigits(SubSeq(str, 9, 10))
  THEN LET y == DigitsToNat(SubSeq(str, 1, 4))
           m == DigitsToNat(SubSeq(str, 6, 7))
           d == DigitsToNat(SubSeq(str, 9, 10))
       IN IF m >= 1 /\ m <= 12 /\ d >= 1 /\ d <= DaysInMonth(y, m)
          THEN [valid |-> TRUE, y |-> y, m |-> m, d |-> d]
          ELSE InvalidDate
  ELSE InvalidDate

\* The local calendar date of midnight UTC on the host: the same date when
\* the host is at or ahead of UTC, the previous day when it is behind.
LocalDate(dt) ==
  IF tzOffset >= 0 THEN dt
  ELSE IF dt.d > 1 THEN [dt EXCEPT !.d = dt.d - 1]
  ELSE IF dt.m > 1 THEN [dt EXCEPT !.m = dt.m - 1, !.d = DaysInMonth(dt.y, dt.m - 1)]
  ELSE [dt EXCEPT !.y = dt.y - 1, !.m = 12, !.d = 31]

\* new Date(str).getMonth(): 0..11 in local time, -1 standing for NaN.
getMonth(str) ==
  LET dt == ParseDate(str) IN IF dt.valid THEN LocalDate(dt).m - 1 ELSE -1

getFullYear(str) ==
  LET dt == ParseDate(str) IN IF dt.valid THEN LocalDate(dt).y ELSE -1

\* Without the isNaN check an Invalid Date is keyed "NaN-NaN".
monthKey_NoValidityCheck(dateStr) ==
  IF dateStr = <<>> THEN STR_Unknown
  ELSE IF ~ParseDate(dateStr).valid THEN <<78, 97, 78, 45, 78, 97, 78>>
  ELSE NumToStr(getFullYear(dateStr)) \o <<Minus>> \o padStart2(NumToStr(getMonth(dateStr) + 1))

monthKey(dateStr) ==
  IF dateStr = <<>> THEN STR_Unknown
  ELSE IF ~ParseDate(dateStr).valid THEN STR_Unknown
  ELSE NumToStr(getFullYear(dateStr)) \o <<Minus>> \o padStart2(NumToStr(getMonth(dateStr) + 1))

\* monthKey called with a value that may be missing: `!dateStr` holds for
\* undefined as it does for the empty string.
monthKeyArg(dateStr) ==
  IF ~Truthy(dateStr) THEN STR_Unknown ELSE monthKey(dateStr.s)

(***************************************************************************)
(* Invoice Totaler                                                         *)
(***************************************************************************)
\* A line item { qty, price }; an absent field is Undefined.  An element
\* that is null or undefined instead of an object has isObject = FALSE.
Item(qty, price) == [isObject |-> TRUE, qty |-> qty, price |-> price]

NullItem == [isObject |-> FALSE, qty |-> Undefined, price |-> Undefined]

\* The items field of an invoice: an array of line items, or missing.
Items(elems) == [isArray |-> TRUE, elems |-> elems]

NoItems == [isArray |-> FALSE, elems |-> <<>>]

\* items.reduce(...) raises a TypeError when items is not an array, and the
\* callback raises on i.qty when an element is null or undefined.
computeInvoiceTotalRaises(items) ==
  \/ ~items.isArray
  \/ \E k \in 1..Len(items.elems) : ~items.elems[k].isObject

lineTotal_IgnoreQty(i) == parseNumber(i.price)

\* parseNumber(i.qty || 1) * parseNumber(i.price)
lineTotal(i) == parseNumber(JsOr(i.qty, Num(1))) * parseNumber(i.price)

RECURSIVE reduceItems(_, _)
reduceItems(elems, sum) ==
  IF elems = <<>> THEN sum
  ELSE reduceItems(Tail(elems), sum + lineTotal(Head(elems)))

\* The value returned when the call does not raise.
computeInvoiceTotal(items) == reduceItems(items.elems, 0)

(***************************************************************************)
(* Profit & Loss: calcPLForYear                                            *)
(***************************************************************************)
MonthIdx == 0..11

initRow == [i \in MonthIdx |-> 0]

\* row[idx] += v; an index of NaN (-1) adds a stray property and leaves the
\* twelve slots alone.
AddAt(row, idx, v) == IF idx \in MonthIdx THEN [row EXCEPT ![idx] = @ + v] ELSE row

yearStart(year) == NumToStr(year) \o <<Minus, 48, 49, Minus, 48, 49>>

yearEnd(year) == NumToStr(year) \o <<Minus, 49, 50, Minus, 51, 49>>

months(year) == [i \in MonthIdx |-> NumToStr(year) \o <<Minus>> \o padStart2(NumToStr(i + 1))]

\* The guard of each forEach body: !date || date < yearStart || date > yearEnd
skipRecord_ExclusiveEnd(date, year) ==
  date = <<>> \/ StrLess(date, yearStart(year)) \/ ~StrLess(date, yearEnd(year))

skipRecord(date, year) ==
  date = <<>> \/ StrLess(date, yearStart(year)) \/ StrGreater(date, yearEnd(year))

isProduct_CaseSensitive(inv) ==
  (IF inv.type = Undefined THEN <<>> ELSE inv.type.s) = STR_product

\* (inv.type || '').toLowerCase() === 'product'
isProduct(inv) ==
  toLowerCase(JsOr(inv.type, Str(<<>>)).s) = STR_product

RECURSIVE salesLoop(_, _, _)
salesLoop(k, year, sales) ==
  IF k > Len(sellEntries) THEN sales
  ELSE LET e == sellEntries[k] IN
       IF skipRecord(e.date, year) THEN salesLoop(k + 1, year, sales)
       ELSE salesLoop(k + 1, year, AddAt(sales, getMonth(e.date), parseNumber(e.amount)))

\* An insertion-ordered Map from row label to row: a sequence of entries.
MapHas(map, key) == \E k \in 1..Len(map) : map[k].key = key

MapIndex(map, key) == CHOOSE k \in 1..Len(map) : map[k].key = key

MapGet(map, key) == map[MapIndex(map, key)].val

\* map.set(key, vals): an existing key keeps its position and gets the new
\* value, a new key is appended.
MapSet(map, key, val) ==
  IF MapHas(map, key) THEN [map EXCEPT ![MapIndex(map, key)].val = val]
  ELSE Append(map, [key |-> key, val |-> val])

\* The invoice loop: acc = [cogs, rows] with rows the invoiceExpenseRows Map.
RECURSIVE invoiceLoop(_, _, _)
invoiceLoop(k, year, acc) ==
  IF k > Len(invoices) THEN acc
  ELSE LET inv == invoices[k] IN
       IF skipRecord(inv.invoiceDate, year) THEN invoiceLoop(k + 1, year, acc)
       ELSE LET idx == getMonth(inv.invoiceDate)
                total == computeInvoiceTotal(inv.items)
            IN IF isProduct(inv)
               THEN invoiceLoop(k + 1, year, [acc EXCEPT !.cogs = AddAt(@, idx, total)])
               ELSE LET rows0 == IF MapHas(acc.rows, "Invoice Expenses") THEN acc.rows
                                 ELSE MapSet(acc.rows, "Invoice Expenses", initRow)
                        rows1 == MapSet(rows0, "Invoice Expenses",
                                        AddAt(MapGet(rows0, "Invoice Expenses"), idx, total))
                    IN invoiceLoop(k + 1, year, [acc EXCEPT !.rows = rows1])

\* new Map(state.expenseTypes.map(t => [t.id, t.name])): a later entry with
\* the same id replaces the name of the earlier one.
RECURSIVE typeByIdLoop(_, _)
typeByIdLoop(k, map) ==
  IF k > Len(expenseTypes) THEN map
  ELSE typeByIdLoop(k + 1, MapSet(map, expenseTypes[k].id, expenseTypes[k].name))

typeById == typeByIdLoop(1, <<>>)

\* typeById.get(exp.typeId) with no fallback: an unknown id gives no name.
typeName_NoFallback(typeId) ==
  IF MapHas(typeById, typeId) THEN MapGet(typeById, typeId) ELSE ""

\* typeById.get(exp.typeId) || 'Other'
typeName(typeId) ==
  LET name == IF MapHas(typeById, typeId) THEN MapGet(typeById, typeId) ELSE ""
  IN IF name # "" THEN name ELSE "Other"

\* expenseTypes.forEach(name => expenseRows.set(name, initRow()))
RECURSIVE seedRows(_, _)
seedRows(k, rows) ==
  IF k > Len(typeById) THEN rows
  ELSE seedRows(k + 1, MapSet(rows, typeById[k].val, initRow))

RECURSIVE expenseLoop(_, _, _)
expenseLoop(k, year, rows) ==
  IF k > Len(otherExpenses) THEN rows
  ELSE LET exp == otherExpenses[k] IN
       IF skipRecord(exp.date, year) THEN expenseLoop(k + 1, year, rows)
       ELSE LET idx == getMonth(exp.date)
                name == typeName(exp.typeId)
                rows0 == IF MapHas(rows, name) THEN rows ELSE MapSet(rows, name, initRow)
            IN expenseLoop(k + 1, year,
                 MapSet(rows0, name, AddAt(MapGet(rows0, name), idx, parseNumber(exp.amount))))

RECURSIVE SumTo(_, _)
SumTo(arr, i) == IF i < 0 THEN 0 ELSE arr[i] + SumTo(arr, i - 1)

totals_SkipLast(arr) == SumTo(arr, 10)

\* arr.reduce((a, b) => a + b, 0)
totals(arr) == SumTo(arr, 11)

\* r.forEach((v, i) => sums[i] += v), from column i on
RECURSIVE addRow(_, _, _)
addRow(sums, r, i) ==
  IF i > 11 THEN sums ELSE addRow([sums EXCEPT ![i] = @ + r[i]], r, i + 1)

RECURSIVE sumColsLoop(_, _, _)
sumColsLoop(rows, k, sums) ==
  IF k > Len(rows) THEN sums
  ELSE sumColsLoop(rows, k + 1, addRow(sums, rows[k].val, 0))

sumCols_SkipFirst(rows) == sumColsLoop(rows, 2, initRow)

sumCols(rows) == sumColsLoop(rows, 1, initRow)

RowMinus_Plus(a, b) == addRow(a, b, 0)

RECURSIVE subRow(_, _, _)
subRow(a, b, i) ==
  IF i > 11 THEN a ELSE subRow([a EXCEPT ![i] = @ - b[i]], b, i + 1)

\* a.map((v, i) => v - b[i])
RowMinus(a, b) == subRow(a, b, 0)

\* The three loops of calcPLForYear: the sales row, the cogs row and the
\* expenseRows Map (invoiceExpenseRows first, then the seeded type rows).
plRows(year) ==
  LET inv == invoiceLoop(1, year, [cogs |-> initRow, rows |-> <<>>])
  IN [sales |-> salesLoop(1, year, initRow),
      cogs |-> inv.cogs,
      expenseRows |-> expenseLoop(1, year, seedRows(1, inv.rows))]

plDerived(r) ==
  [grossProfit |-> RowMinus(r.sales, r.cogs),
   otherExpensesSum |-> sumCols(r.expenseRows)]

plTable(year, r, d) ==
  LET ebit == RowMinus(d.grossProfit, d.otherExpensesSum)
      net == ebit
  IN [months |-> months(year),
      sales |-> r.sales, cogs |-> r.cogs, grossProfit |-> d.grossProfit,
      expenseRows |-> r.expenseRows, otherExpensesSum |-> d.otherExpensesSum,
      ebit |-> ebit, net |-> net,
      totals |-> [sales |-> totals(r.sales), cogs |-> totals(r.cogs),
                  grossProfit |-> totals(d.grossProfit),
                  otherExpenses |-> totals(d.otherExpensesSum),
                  ebit |-> totals(ebit), net |-> totals(net)]]

\* The returned table; r and d name the arrays of the function body, each
\* computed once.
calcPLForYear(year) ==
  CHOOSE table \in
    UNION {{plTable(year, r, d) : d \in {plDerived(r)}} : r \in {plRows(year)}} : TRUE

\* exportPLCsv: the rows handed to downloadCsv after the header row, each
\* data row a label, the twelve monthly values and
\* vals.reduce((a, b) => a + b, 0).
\* n.toFixed(2) for an integer n: the digits, signed, and ".00".
toFixed2(n) ==
  (IF n < 0 THEN <<Minus>> \o NumToStr(0 - n) ELSE NumToStr(n)) \o <<46, Zero, Zero>>

\* One pushed row; cells holds the thirteen formatted cells after the label.
csvRow(label, vals) ==
  [label |-> label, vals |-> vals, total |-> totals(vals),
   cells |-> [c \in 1..13 |-> IF c <= 12 THEN toFixed2(vals[c - 1]) ELSE toFixed2(totals(vals))]]

\* The expense rows pushed after the summary rows.
csvRows_ExpensesLast(d) ==
  <<csvRow("Net Sales", d.sales), csvRow("COGS (Products)", d.cogs),
    csvRow("Gross Profit", d.grossProfit), [label |-> "Operating Expenses"]>>
  \o <<csvRow("Total Operating Expenses", d.otherExpensesSum),
       csvRow("EBIT", d.ebit), csvRow("Net Earnings", d.net)>>
  \o [k \in 1..Len(d.expenseRows) |-> csvRow(d.expenseRows[k].key, d.expenseRows[k].val)]

csvRows(d) ==
  <<csvRow("Net Sales", d.sales), csvRow("COGS (Products)", d.cogs),
    csvRow("Gross Profit", d.grossProfit), [label |-> "Operating Expenses"]>>
  \o [k \in 1..Len(d.expenseRows) |-> csvRow(d.expenseRows[k].key, d.expenseRows[k].val)]
  \o <<csvRow("Total Operating Expenses", d.otherExpensesSum),
       csvRow("EBIT", d.ebit), csvRow("Net Earnings", d.net)>>

exportPLCsv(year) == CHOOSE rows \in {csvRows(d) : d \in {calcPLForYear(year)}} : TRUE

(***************************************************************************)
(* The ledger snapshots of the Profit & Loss specification                 *)
(***************************************************************************)
Years == {2023, 2024}

\* Hours of the host's local time relative to UTC.
TzOffsets == {-5, 2}

Sale(date, type, amount) == [date |-> date, type |-> type, amount |-> amount]

Invoice(invoiceDate, type, items) == [invoiceDate |-> invoiceDate, type |-> type, items |-> items]

OtherExpense(date, typeId, amount) == [date |-> date, typeId |-> typeId, amount |-> amount]

ExpenseType(id, name) == [id |-> id, name |-> name]

PLSaleDates == {<<>>, DateStr(2023, 12, 31), DateStr(2024, 1, 1), DateStr(2024, 1, 15)}

\* Stored amounts: a number, the numeric string "12" and, for one sale, the
\* non-numeric string "abc".
PLAmounts == {Num(100), Str(<<49, 50>>)}

PLSales ==
  {Sale(d, "fiscal", a) : d \in PLSaleDates, a \in PLAmounts}
    \cup {Sale(DateStr(2024, 1, 15), "fiscal", Str(STR_abc))}

PLInvoiceDates == {DateStr(2024, 1, 20), DateStr(2024, 12, 31)}

PLInvoiceTypes == {Str(STR_product), Str(STR_PRODUCT), Str(STR_service)}

PLItems == Items(<<Item(Num(2), Num(30))>>)

PLInvoices ==
  {Invoice(d, t, PLItems) : d \in PLInvoiceDates, t \in PLInvoiceTypes}
    \cup {Invoice(DateStr(2025, 1, 1), Str(STR_product), PLItems),
          Invoice(DateStr(2024, 1, 20), Str(STR_Product), PLItems),
          Invoice(DateStr(2024, 1, 20), Undefined, PLItems)}

\* Type ids: one of the catalog, one unknown to it, one missing.
PLExpenses ==
  {OtherExpense(DateStr(2024, 2, 1), t, Num(50)) : t \in {"rent", "zzz", ""}}
    \cup {OtherExpense(DateStr(2023, 6, 30), "rent", Num(50))}

Catalogs ==
  {<<ExpenseType("rent", "Rent"), ExpenseType("office", "Office expenses")>>,
   <<ExpenseType("wage", "Rent"), ExpenseType("other", "Other"), ExpenseType("rent", "Rent")>>,
   <<ExpenseType("rent", "Invoice Expenses")>>}

\* The frontend specifications run without a server.
NoDb == [none |-> TRUE]

NoCall == [fn |-> "none"]

NoRet == [none |-> TRUE]

InitLedger ==
  \E a \in 0..MaxLedger : \E b \in 0..(MaxLedger - a) : \E c \in 0..(MaxLedger - a - b) :
    /\ sellEntries \in [1..a -> PLSales]
    /\ invoices \in [1..b -> PLInvoices]
    /\ otherExpenses \in [1..c -> PLExpenses]

InitPL ==
  /\ InitLedger
  /\ expenseTypes \in Catalogs
  /\ tzOffset \in TzOffsets
  /\ db = NoDb
  /\ NODE_ENV = ""
  /\ reqs = <<>>
  /\ call = NoCall
  /\ ret = NoRet

\* A first call that leaves a row behind in the catalog.
CalcPL_SeedsCatalog(year) ==
  /\ call = NoCall
  /\ call' = [fn |-> "calcPLForYear", year |-> year]
  /\ ret' = calcPLForYear(year)
  /\ expenseTypes' = Append(expenseTypes, ExpenseType("new", "New"))
  /\ UNCHANGED <<sellEntries, invoices, otherExpenses, tzOffset, NODE_ENV, db, reqs>>

\* renderPLTable(year) / the year select: the table of the chosen year.  Each
\* snapshot is followed through one call.
CalcPL(year) ==
  /\ call = NoCall
  /\ call' = [fn |-> "calcPLForYear", year |-> year]
  /\ ret' = calcPLForYear(year)
  /\ UNCHANGED <<sellEntries, invoices, otherExpenses, expenseTypes, tzOffset, NODE_ENV, db, reqs>>

\* The export button: the rows of the CSV file.
ExportPL(year) ==
  /\ call = NoCall
  /\ call' = [fn |-> "exportPLCsv", year |-> year]
  /\ ret' = exportPLCsv(year)
  /\ UNCHANGED <<sellEntries, invoices, otherExpenses, expenseTypes, tzOffset, NODE_ENV, db, reqs>>

NextPL ==
  \/ \E year \in Years : CalcPL(year)
  \/ \E year \in Years : ExportPL(year)

SpecPL == InitPL /\ [][NextPL]_vars

(***************************************************************************)
(* What a consumer gets by summing the raw records directly                *)
(***************************************************************************)
\* The calendar year and month written in a stored YYYY-MM-DD date string.
WrittenYear(date) == DigitsToNat(SubSeq(date, 1, 4))

WrittenMonth(date) == DigitsToNat(SubSeq(date, 6, 7))

DatedIn(date, year) == date # <<>> /\ WrittenYear(date) = year

RowSum(row) == SumTo(row, 11)

RECURSIVE SeqSum(_)
SeqSum(q) == IF q = <<>> THEN 0 ELSE Head(q) + SeqSum(Tail(q))

\* Amount of sale k when it is dated in the year (and in the month, when a
\* month 1..12 is given; 0 stands for any month), else 0.
InPeriod(date, year, month) ==
  DatedIn(date, year) /\ (month = 0 \/ WrittenMonth(date) = month)

SaleAmounts(year, month) ==
  [k \in 1..Len(sellEntries) |->
     IF InPeriod(sellEntries[k].date, year, month)
     THEN parseNumber(sellEntries[k].amount) ELSE 0]

SaysProduct(inv) == inv.type \in {Str(STR_product), Str(STR_Product), Str(STR_PRODUCT)}

ProductTotals(year, month) ==
  [k \in 1..Len(invoices) |->
     IF InPeriod(invoices[k].invoiceDate, year, month) /\ SaysProduct(invoices[k])
     THEN computeInvoiceTotal(invoices[k].items) ELSE 0]

NonProductTotals(year, month) ==
  [k \in 1..Len(invoices) |->
     IF InPeriod(invoices[k].invoiceDate, year, month) /\ ~SaysProduct(invoices[k])
     THEN computeInvoiceTotal(invoices[k].items) ELSE 0]

ExpenseAmounts(year, month) ==
  [k \in 1..Len(otherExpenses) |->
     IF InPeriod(otherExpenses[k].date, year, month)
     THEN parseNumber(otherExpenses[k].amount) ELSE 0]

IsPL == call.fn = "calcPLForYear"

IsExport == call.fn = "exportPLCsv"

\* Sum of all cells of all expense rows of the table.
RowsTotal(rows) == SeqSum([k \in 1..Len(rows) |-> RowSum(rows[k].val)])

\* Column m of the expense rows.
ColumnSum(rows, m) == SeqSum([k \in 1..Len(rows) |-> rows[k].val[m]])

(***************************************************************************)
(* Claims about the Profit & Loss table                                    *)
(***************************************************************************)
\* C1: the twelve values of the sales row of calcPLForYear(year) sum to the
\* coerced amounts of exactly the sell entries dated in that year.
C1_SalesReconciliation ==
  IsPL => RowSum(ret.sales) = SeqSum(SaleAmounts(call.year, 0))

\* C1 witness: a table over a ledger with a counted in-year sale and a sale
\* of another year.
C1_Witness ==
  /\ IsPL
  /\ RowSum(ret.sales) > 0
  /\ \E k \in 1..Len(sellEntries) :
       /\ sellEntries[k].date # <<>>
       /\ ~DatedIn(sellEntries[k].date, call.year)
       /\ parseNumber(sellEntries[k].amount) > 0

\* C2: the cogs row sums to the invoice totals of exactly the in-year
\* invoices whose type is "product" in any letter case.
C2_CogsReconciliation ==
  IsPL => RowSum(ret.cogs) = SeqSum(ProductTotals(call.year, 0))

\* C2 witness: a table whose cogs counts an invoice typed "Product" beside an
\* in-year invoice of another type.
C2_Witness ==
  /\ IsPL
  /\ RowSum(ret.cogs) > 0
  /\ \E k \in 1..Len(invoices) :
       invoices[k].type = Str(STR_Product) /\ DatedIn(invoices[k].invoiceDate, call.year)
  /\ \E k \in 1..Len(invoices) :
       ~SaysProduct(invoices[k]) /\ DatedIn(invoices[k].invoiceDate, call.year)

\* C3: for any catalog, the full-year operating-expense total, and the sum of
\* all cells of all expense rows, equal the in-year other expenses plus the
\* totals of the in-year non-product invoices.
C3_OpexReconciliation ==
  IsPL =>
    /\ RowSum(ret.otherExpensesSum)
         = SeqSum(ExpenseAmounts(call.year, 0)) + SeqSum(NonProductTotals(call.year, 0))
    /\ RowsTotal(ret.expenseRows)
         = SeqSum(ExpenseAmounts(call.year, 0)) + SeqSum(NonProductTotals(call.year, 0))

\* C4: per month, grossProfit = sales - cogs, otherExpensesSum is the column
\* sum of the expense rows, ebit = grossProfit - otherExpensesSum, net = ebit.
C4_DerivedRows ==
  IsPL =>
    \A m \in MonthIdx :
      /\ ret.grossProfit[m] = ret.sales[m] - ret.cogs[m]
      /\ ret.otherExpensesSum[m] = ColumnSum(ret.expenseRows, m)
      /\ ret.ebit[m] = ret.grossProfit[m] - ret.otherExpensesSum[m]
      /\ ret.net[m] = ret.ebit[m]

\* C4 witness: a month with sales, cost of goods and two expense rows in use.
C4_Witness ==
  /\ IsPL
  /\ \E m \in MonthIdx : ret.sales[m] > 0 /\ ret.cogs[m] > 0
  /\ \E m \in MonthIdx : ret.ebit[m] < 0

\* C5: every in-year record is added into slot MM-1 of its row, MM being the
\* month written in its stored date, on every host.
C5_MonthPlacement ==
  IsPL =>
    \A m \in MonthIdx :
      /\ ret.sales[m] = SeqSum(SaleAmounts(call.year, m + 1))
      /\ ret.cogs[m] = SeqSum(ProductTotals(call.year, m + 1))
      /\ ret.otherExpensesSum[m] >= SeqSum(ExpenseAmounts(call.year, m + 1))

\* C5 on hosts at or ahead of UTC, where the local date is the written date.
C5_MonthPlacementAheadOfUtc == tzOffset >= 0 => C5_MonthPlacement

\* C6: each total of the table is the sum of its row's twelve values, each CSV
\* data row ends with the sum of its twelve values, and
\* totals.net = totals.sales - totals.cogs - totals.otherExpenses.
C6_RowTotals ==
  /\ IsPL =>
       /\ ret.totals.sales = RowSum(ret.sales)
       /\ ret.totals.cogs = RowSum(ret.cogs)
       /\ ret.totals.grossProfit = RowSum(ret.grossProfit)
       /\ ret.totals.otherExpenses = RowSum(ret.otherExpensesSum)
       /\ ret.totals.ebit = RowSum(ret.ebit)
       /\ ret.totals.net = RowSum(ret.net)
       /\ ret.totals.net = ret.totals.sales - ret.totals.cogs - ret.totals.otherExpenses
  /\ IsExport =>
       \A k \in 1..Len(ret) : k # 4 => ret[k].total = RowSum(ret[k].vals)

\* C6 witness: a table with a December value and a non-zero net total.
C6_Witness ==
  /\ IsPL
  /\ \E row \in {ret.sales, ret.cogs} : row[11] > 0
  /\ ret.totals.net # 0
  /\ ret.totals.otherExpenses > 0

(***************************************************************************)
(* The Invoice Totaler specification: one stored invoice, its total shown  *)
(***************************************************************************)
TotalQtys == {Undefined, Num(0), Num(3), Num(-2), Str(STR_abc)}

TotalPrices == {Undefined, Num(30), Num(-5), Str(STR_abc)}

TotalElems == {Item(q, p) : q \in TotalQtys, p \in TotalPrices} \cup {NullItem}

TotalItems ==
  {NoItems} \cup UNION {{Items(e) : e \in [1..n -> TotalElems]} : n \in 0..MaxItems}

\* The legacy script: sum + parseNumber(i.price)
RECURSIVE reduceItemsLegacy(_, _)
reduceItemsLegacy(elems, sum) ==
  IF elems = <<>> THEN sum
  ELSE reduceItemsLegacy(Tail(elems), sum + parseNumber(Head(elems).price))

computeInvoiceTotalLegacy(items) == reduceItemsLegacy(items.elems, 0)

\* What a call returns: the total, or a raised TypeError.
Returned(value) == [raised |-> FALSE, value |-> value]

Raised == [raised |-> TRUE, value |-> 0]

InitTotal ==
  /\ sellEntries = <<>>
  /\ otherExpenses = <<>>
  /\ expenseTypes = <<>>
  /\ \E items \in TotalItems : invoices = <<Invoice(DateStr(2024, 1, 20), Str(STR_product), items)>>
  /\ tzOffset = 0
  /\ db = NoDb
  /\ NODE_ENV = ""
  /\ reqs = <<>>
  /\ call = NoCall
  /\ ret = NoRet

\* The invoice list and the invoice details show computeInvoiceTotal(inv.items).
InvoiceTotal(k) ==
  /\ call = NoCall
  /\ call' = [fn |-> "computeInvoiceTotal", k |-> k]
  /\ ret' = IF computeInvoiceTotalRaises(invoices[k].items) THEN Raised
            ELSE Returned(computeInvoiceTotal(invoices[k].items))
  /\ UNCHANGED <<sellEntries, invoices, otherExpenses, expenseTypes, tzOffset, NODE_ENV, db, reqs>>

InvoiceTotalLegacy(k) ==
  /\ call = NoCall
  /\ call' = [fn |-> "computeInvoiceTotalLegacy", k |-> k]
  /\ ret' = IF computeInvoiceTotalRaises(invoices[k].items) THEN Raised
            ELSE Returned(computeInvoiceTotalLegacy(invoices[k].items))
  /\ UNCHANGED <<sellEntries, invoices, otherExpenses, expenseTypes, tzOffset, NODE_ENV, db, reqs>>

NextTotal ==
  \/ \E k \in 1..Len(invoices) : InvoiceTotal(k)
  \/ \E k \in 1..Len(invoices) : InvoiceTotalLegacy(k)

SpecTotal == InitTotal /\ [][NextTotal]_vars

IsTotal == call.fn = "computeInvoiceTotal"

IsTotalLegacy == call.fn = "computeInvoiceTotalLegacy"

\* A line item of the data model: a quantity that is absent or a positive
\* integer, and a non-negative unit price.
WellFormedItem(i) ==
  /\ i.isObject
  /\ i.qty = Undefined \/ (i.qty.t = "num" /\ i.qty.v > 0)
  /\ i.price.t = "num" /\ i.price.v >= 0

WellFormedItems(items) ==
  items.isArray /\ \A k \in 1..Len(items.elems) : WellFormedItem(items.elems[k])

QtyOf(i) == IF i.qty = Undefined THEN 1 ELSE i.qty.v

LineProducts(items) == [k \in 1..Len(items.elems) |-> QtyOf(items.elems[k]) * items.elems[k].price.v]

C8_TotalerDegradation ==
  IsTotal => ~ret.raised /\ ret.value >= 0

(***************************************************************************)
(* Series Aligner: alignSeriesLabels                                       *)
(***************************************************************************)
Series(labels, values) == [labels |-> labels, values |-> values]

SeqHas(q, x) == \E k \in 1..Len(q) : q[k] = x

\* s.labels.indexOf(l): the first position (from 0), or -1.
indexOf(q, x) == IF SeqHas(q, x) THEN (CHOOSE k \in 1..Len(q) : q[k] = x /\ \A j \in 1..(k - 1) : q[j] # x) - 1 ELSE -1

\* labelSet.add(l) over every label of every series: a Set keeps the order of
\* first insertion.
RECURSIVE addLabels(_, _)
addLabels(labels, set) ==
  IF labels = <<>> THEN set
  ELSE addLabels(Tail(labels), IF SeqHas(set, Head(labels)) THEN set ELSE Append(set, Head(labels)))

RECURSIVE labelSetLoop(_, _)
labelSetLoop(seriesList, set) ==
  IF seriesList = <<>> THEN set
  ELSE labelSetLoop(Tail(seriesList), addLabels(Head(seriesList).labels, set))

\* Array.prototype.sort() without a comparator: ascending by code units.
RECURSIVE insertSorted(_, _)
insertSorted(sorted, x) ==
  IF sorted = <<>> THEN <<x>>
  ELSE IF StrLess(x, Head(sorted)) THEN <<x>> \o sorted
  ELSE <<Head(sorted)>> \o insertSorted(Tail(sorted), x)

\* The keys left in insertion order.
sort_KeepOrder(q) == q

RECURSIVE sort(_)
sort(q) == IF q = <<>> THEN <<>> ELSE insertSorted(sort(Tail(q)), Head(q))

alignRow_Positional(s, labels) ==
  [k \in 1..Len(labels) |-> IF k <= Len(s.values) THEN s.values[k] ELSE 0]

\* labels.map(l => { idx = s.labels.indexOf(l); idx >= 0 ? (s.values[idx] || 0) : 0 })
alignRow(s, labels) ==
  [k \in 1..Len(labels) |->
     LET idx == indexOf(s.labels, labels[k]) IN
       IF idx >= 0 /\ idx < Len(s.values) THEN s.values[idx + 1] ELSE 0]

alignSeriesLabels(seriesList) ==
  CHOOSE out \in
    {[labels |-> labels,
      alignedValues |-> [i \in 1..Len(seriesList) |-> alignRow(seriesList[i], labels)]] :
       labels \in {sort(labelSetLoop(seriesList, <<>>))}} : TRUE

(***************************************************************************)
(* The Series Aligner specification                                        *)
(***************************************************************************)
STR_2024_01 == <<50, 48, 50, 52, 45, 48, 49>>

STR_2024_02 == <<50, 48, 50, 52, 45, 48, 50>>

AlignLabels == {STR_2024_01, STR_2024_02, STR_Unknown}

AlignValues == {5, 7}

\* Duplicate-free label sequences of up to two labels, in any order.
AlignLabelSeqs ==
  {<<>>} \cup {<<a>> : a \in AlignLabels}
         \cup {q \in AlignLabels \X AlignLabels : q[1] # q[2]}

\* Series with duplicate-free labels and as many values.
AlignSeries ==
  UNION {{Series(l, v) : v \in [1..Len(l) -> AlignValues]} : l \in AlignLabelSeqs}

AlignSeriesLists == UNION {[1..n -> AlignSeries] : n \in 0..MaxSeries}

InitAlign ==
  /\ sellEntries = <<>>
  /\ invoices = <<>>
  /\ otherExpenses = <<>>
  /\ expenseTypes = <<>>
  /\ tzOffset = 0
  /\ db = NoDb
  /\ NODE_ENV = ""
  /\ reqs = <<>>
  /\ call = NoCall
  /\ ret = NoRet

\* renderDashboard aligns the series of a chart before drawing it.
Align(seriesList) ==
  /\ call = NoCall
  /\ call' = [fn |-> "alignSeriesLabels", seriesList |-> seriesList]
  /\ ret' = alignSeriesLabels(seriesList)
  /\ UNCHANGED <<sellEntries, invoices, otherExpenses, expenseTypes, tzOffset, NODE_ENV, db, reqs>>

NextAlign == call = NoCall /\ \E seriesList \in AlignSeriesLists : Align(seriesList)

SpecAlign == InitAlign /\ [][NextAlign]_vars

IsAlign == call.fn = "alignSeriesLabels"

LabelsOf(seriesList) ==
  UNION {{seriesList[i].labels[j] : j \in 1..Len(seriesList[i].labels)} : i \in 1..Len(seriesList)}

\* C9: the labels returned are the sorted, duplicate-free union of the input
\* labels; every input series gets a vector of labels.length values, holding
\* the series' own value at each label it has and 0 at each label it lacks.
C9_Alignment ==
  IsAlign =>
    LET in == call.seriesList
        labels == ret.labels
    IN /\ {labels[k] : k \in 1..Len(labels)} = LabelsOf(in)
       /\ Len(labels) = Cardinality(LabelsOf(in))
       /\ \A k \in 1..(Len(labels) - 1) : StrLess(labels[k], labels[k + 1])
       /\ Len(ret.alignedValues) = Len(in)
       /\ \A i \in 1..Len(in) :
            /\ Len(ret.alignedValues[i]) = Len(labels)
            /\ \A k \in 1..Len(labels) :
                 /\ (\A j \in 1..Len(in[i].labels) :
                       in[i].labels[j] = labels[k] => ret.alignedValues[i][k] = in[i].values[j])
                 /\ (~SeqHas(in[i].labels, labels[k]) => ret.alignedValues[i][k] = 0)

\* C9 witness: two series with different labels, the first given out of
\* order, so that each is zero-filled at a label of the other.
C9_Witness ==
  /\ IsAlign
  /\ Len(call.seriesList) = 2
  /\ call.seriesList[1].labels = <<STR_Unknown, STR_2024_01>>
  /\ call.seriesList[2].labels = <<STR_2024_02>>
  /\ ret.labels = <<STR_2024_01, STR_2024_02, STR_Unknown>>
  /\ ret.alignedValues[1][2] = 0
  /\ ret.alignedValues[2][2] = call.seriesList[2].values[1]

(***************************************************************************)
(* Time-Series Aggregator: aggregateByMonthSell, aggregateByMonthExpenses  *)
(***************************************************************************)
outOfRange_ExclusiveTo(date, fromDate, toDate) ==
  \/ fromDate # <<>> /\ StrLess(date, fromDate)
  \/ toDate # <<>> /\ ~StrLess(date, toDate)

\* The two early returns of each forEach body:
\*   if (fromDate && date < fromDate) return; if (toDate && date > toDate) return;
outOfRange(date, fromDate, toDate) ==
  \/ fromDate # <<>> /\ StrLess(date, fromDate)
  \/ toDate # <<>> /\ StrGreater(date, toDate)

\* map.set(key, v): the running sum of the cell is lost.
MapAdd_Overwrite(map, key, v) == MapSet(map, key, v)

\* map.set(key, (map.get(key) || 0) + v)
MapAdd(map, key, v) ==
  MapSet(map, key, (IF MapHas(map, key) THEN MapGet(map, key) ELSE 0) + v)

RECURSIVE mapKeys(_)
mapKeys(map) == IF map = <<>> THEN <<>> ELSE <<Head(map).key>> \o mapKeys(Tail(map))

mapToSortedSeries(map) ==
  CHOOSE series \in
    {[labels |-> labels, values |-> [k \in 1..Len(labels) |-> MapGet(map, labels[k])]] :
       labels \in {sort(mapKeys(map))}} : TRUE

\* The sell loop: maps = [fiscal, nonFiscal].
RECURSIVE sellLoop(_, _, _, _)
sellLoop(k, fromDate, toDate, maps) ==
  IF k > Len(sellEntries) THEN maps
  ELSE LET e == sellEntries[k] IN
       IF outOfRange(e.date, fromDate, toDate) THEN sellLoop(k + 1, fromDate, toDate, maps)
       ELSE IF e.type = "fiscal"
         THEN sellLoop(k + 1, fromDate, toDate,
                [maps EXCEPT !.fiscal = MapAdd(@, monthKey(e.date), parseNumber(e.amount))])
         ELSE sellLoop(k + 1, fromDate, toDate,
                [maps EXCEPT !.nonFiscal = MapAdd(@, monthKey(e.date), parseNumber(e.amount))])

aggregateByMonthSell(fromDate, toDate) ==
  CHOOSE out \in
    {[fiscal |-> mapToSortedSeries(maps.fiscal), nonFiscal |-> mapToSortedSeries(maps.nonFiscal)] :
       maps \in {sellLoop(1, fromDate, toDate, [fiscal |-> <<>>, nonFiscal |-> <<>>])}} : TRUE

RECURSIVE purchasesLoop(_, _, _, _)
purchasesLoop(k, fromDate, toDate, map) ==
  IF k > Len(invoices) THEN map
  ELSE LET inv == invoices[k] IN
       IF outOfRange(inv.invoiceDate, fromDate, toDate) THEN purchasesLoop(k + 1, fromDate, toDate, map)
       ELSE purchasesLoop(k + 1, fromDate, toDate,
              MapAdd(map, monthKey(inv.invoiceDate), computeInvoiceTotal(inv.items)))

RECURSIVE expensesLoop(_, _, _, _)
expensesLoop(k, fromDate, toDate, map) ==
  IF k > Len(otherExpenses) THEN map
  ELSE LET exp == otherExpenses[k] IN
       IF outOfRange(exp.date, fromDate, toDate) THEN expensesLoop(k + 1, fromDate, toDate, map)
       ELSE expensesLoop(k + 1, fromDate, toDate,
              MapAdd(map, monthKey(exp.date), parseNumber(exp.amount)))

aggregateByMonthExpenses(fromDate, toDate) ==
  [purchases |-> mapToSortedSeries(purchasesLoop(1, fromDate, toDate, <<>>)),
   expenses |-> mapToSortedSeries(expensesLoop(1, fromDate, toDate, <<>>))]

(***************************************************************************)
(* The aggregator specification                                            *)
(***************************************************************************)
AggDates ==
  {<<>>, DateStr(2024, 1, 15), DateStr(2024, 1, 31), DateStr(2024, 2, 1), DateStr(2024, 3, 10)}

AggFromDates == {<<>>, DateStr(2024, 1, 31)}

AggToDates == {<<>>, DateStr(2024, 2, 1)}

AggSales ==
  {Sale(d, "fiscal", a) : d \in AggDates, a \in {Num(100), Str(<<49, 50>>)}}
    \cup {Sale(d, "non-fiscal", Num(100)) : d \in AggDates}

AggRecordDates == {DateStr(2024, 1, 15), DateStr(2024, 2, 1), DateStr(2024, 3, 10)}

AggInvoices == {Invoice(d, Str(STR_product), PLItems) : d \in AggRecordDates}

AggExpenses == {OtherExpense(d, "rent", Num(50)) : d \in AggRecordDates}

InitAgg ==
  /\ \E a \in 0..MaxLedger : \E b \in 0..(MaxLedger - a) : \E c \in 0..(MaxLedger - a - b) :
       /\ sellEntries \in [1..a -> AggSales]
       /\ invoices \in [1..b -> AggInvoices]
       /\ otherExpenses \in [1..c -> AggExpenses]
  /\ expenseTypes = <<ExpenseType("rent", "Rent")>>
  /\ tzOffset \in TzOffsets
  /\ db = NoDb
  /\ NODE_ENV = ""
  /\ reqs = <<>>
  /\ call = NoCall
  /\ ret = NoRet

\* renderDashboard: the series of the sales chart for the dashboard filter.
AggregateSell(fromDate, toDate) ==
  /\ call = NoCall
  /\ call' = [fn |-> "aggregateByMonthSell", fromDate |-> fromDate, toDate |-> toDate]
  /\ ret' = aggregateByMonthSell(fromDate, toDate)
  /\ UNCHANGED <<sellEntries, invoices, otherExpenses, expenseTypes, tzOffset, NODE_ENV, db, reqs>>

\* renderDashboard: the series of the expenses chart.
AggregateExpenses(fromDate, toDate) ==
  /\ call = NoCall
  /\ call' = [fn |-> "aggregateByMonthExpenses", fromDate |-> fromDate, toDate |-> toDate]
  /\ ret' = aggregateByMonthExpenses(fromDate, toDate)
  /\ UNCHANGED <<sellEntries, invoices, otherExpenses, expenseTypes, tzOffset, NODE_ENV, db, reqs>>

NextAgg ==
  \/ \E fromDate \in AggFromDates, toDate \in AggToDates : AggregateSell(fromDate, toDate)
  \/ \E fromDate \in AggFromDates, toDate \in AggToDates : AggregateExpenses(fromDate, toDate)

SpecAgg == InitAgg /\ [][NextAgg]_vars

IsAggSell == call.fn = "aggregateByMonthSell"

IsAggExpenses == call.fn = "aggregateByMonthExpenses"

\* date <= bound for stored strings, spelled out on the code units.
StrLeq(a, b) == a = b \/ StrLess(a, b)

\* The filter of the claim: both bounds inclusive, an empty bound unbounded.
Kept(date, fromDate, toDate) ==
  /\ fromDate = <<>> \/ StrLeq(fromDate, date)
  /\ toDate = <<>> \/ StrLeq(date, toDate)

KeptSaleAmounts(type, fromDate, toDate) ==
  [k \in 1..Len(sellEntries) |->
     IF sellEntries[k].type = type /\ Kept(sellEntries[k].date, fromDate, toDate)
     THEN parseNumber(sellEntries[k].amount) ELSE 0]

KeptInvoiceTotals(fromDate, toDate) ==
  [k \in 1..Len(invoices) |->
     IF Kept(invoices[k].invoiceDate, fromDate, toDate)
     THEN computeInvoiceTotal(invoices[k].items) ELSE 0]

KeptExpenseAmounts(fromDate, toDate) ==
  [k \in 1..Len(otherExpenses) |->
     IF Kept(otherExpenses[k].date, fromDate, toDate)
     THEN parseNumber(otherExpenses[k].amount) ELSE 0]

\* C10: the aggregators keep a record exactly when its stored date is within
\* the inclusive bounds (an empty bound being unbounded): each series sums to
\* the values of the kept records of its category, every value being positive.
C10_RangeFilter ==
  /\ IsAggSell =>
       /\ SeqSum(ret.fiscal.values) = SeqSum(KeptSaleAmounts("fiscal", call.fromDate, call.toDate))
       /\ SeqSum(ret.nonFiscal.values)
            = SeqSum(KeptSaleAmounts("non-fiscal", call.fromDate, call.toDate))
  /\ IsAggExpenses =>
       /\ SeqSum(ret.purchases.values) = SeqSum(KeptInvoiceTotals(call.fromDate, call.toDate))
       /\ SeqSum(ret.expenses.values) = SeqSum(KeptExpenseAmounts(call.fromDate, call.toDate))

\* C10 witness: both bounds set, a sale dated on the upper bound kept and a
\* sale dated before the lower bound dropped.
C10_Witness ==
  /\ IsAggSell
  /\ call.fromDate = DateStr(2024, 1, 31)
  /\ call.toDate = DateStr(2024, 2, 1)
  /\ \E k \in 1..Len(sellEntries) :
       sellEntries[k] = Sale(DateStr(2024, 2, 1), "fiscal", Num(100))
  /\ \E k \in 1..Len(sellEntries) :
       sellEntries[k] = Sale(DateStr(2024, 1, 15), "fiscal", Num(100))
  /\ SeqSum(ret.fiscal.values) = 100

\* The records of one category as (date, value) pairs, in ledger order.
SaleRecords(type) ==
  [k \in 1..Len(sellEntries) |->
     [date |-> sellEntries[k].date,
      value |-> IF sellEntries[k].type = type THEN parseNumber(sellEntries[k].amount) ELSE 0,
      member |-> sellEntries[k].type = type]]

InvoiceRecords ==
  [k \in 1..Len(invoices) |->
     [date |-> invoices[k].invoiceDate, value |-> computeInvoiceTotal(invoices[k].items),
      member |-> TRUE]]

ExpenseRecords ==
  [k \in 1..Len(otherExpenses) |->
     [date |-> otherExpenses[k].date, value |-> parseNumber(otherExpenses[k].amount),
      member |-> TRUE]]

\* A record of the category that passes the date filter of the call.
Survives(rec) == rec.member /\ Kept(rec.date, call.fromDate, call.toDate)

\* The sum of the values of the survivors whose month key is key.
CellSum(recs, key) ==
  SeqSum([k \in 1..Len(recs) |->
            IF Survives(recs[k]) /\ monthKey(recs[k].date) = key THEN recs[k].value ELSE 0])

\* series is the cell-by-cell aggregation of the survivors of recs.
CellsOf(series, recs) ==
  /\ \A i \in 1..Len(series.labels) :
       /\ series.values[i] = CellSum(recs, series.labels[i])
       /\ \E k \in 1..Len(recs) :
            Survives(recs[k]) /\ monthKey(recs[k].date) = series.labels[i]
  /\ \A k \in 1..Len(recs) :
       Survives(recs[k]) =>
         Cardinality({i \in 1..Len(series.labels) :
                        series.labels[i] = monthKey(recs[k].date)}) = 1

\* C11: in the output of both aggregators, the value at each label of each
\* category series is the sum of the values of exactly the surviving records
\* of that category whose month key is the label; every survivor falls in
\* exactly one cell and every label has at least one survivor.
C11_CellSums ==
  /\ IsAggSell =>
       /\ CellsOf(ret.fiscal, SaleRecords("fiscal"))
       /\ CellsOf(ret.nonFiscal, SaleRecords("non-fiscal"))
  /\ IsAggExpenses =>
       /\ CellsOf(ret.purchases, InvoiceRecords)
       /\ CellsOf(ret.expenses, ExpenseRecords)

\* C11 witness: two surviving fiscal sales of the same month summed in one cell.
C11_Witness ==
  /\ IsAggSell
  /\ Len(sellEntries) = 2
  /\ sellEntries[1].date # sellEntries[2].date
  /\ Len(ret.fiscal.labels) = 1
  /\ ret.fiscal.values = <<112>>

\* The sum of the amounts of the sales of one type written with an empty date.
UndatedAmounts(type) ==
  SeqSum([k \in 1..Len(sellEntries) |->
            IF sellEntries[k].type = type /\ sellEntries[k].date = <<>>
            THEN parseNumber(sellEntries[k].amount) ELSE 0])

\* series carries the undated sales of the type under the label "Unknown".
UnknownBucketOf(series, type) ==
  (\E k \in 1..Len(sellEntries) : sellEntries[k].type = type /\ sellEntries[k].date = <<>>)
    => \E i \in 1..Len(series.labels) :
         /\ series.labels[i] = STR_Unknown
         /\ series.values[i] = UndatedAmounts(type)

\* C12: a sale whose date is the empty string is not dropped by
\* aggregateByMonthSell: its amount is in the value at label "Unknown" of the
\* series of its type, with and without date bounds.
C12_UnknownBucket ==
  IsAggSell =>
    /\ UnknownBucketOf(ret.fiscal, "fiscal")
    /\ UnknownBucketOf(ret.nonFiscal, "non-fiscal")

\* The same with no lower bound given: the case in which the bucket is kept.
C12_UnknownBucketNoLowerBound == (IsAggSell /\ call.fromDate = <<>>) => C12_UnknownBucket

(***************************************************************************)
(* The series specification: mapToSortedSeries on insertion-ordered maps   *)
(***************************************************************************)
STR_2023_12 == <<50, 48, 50, 51, 45, 49, 50>>

SeriesKeys == {STR_2023_12, STR_2024_01, STR_2024_02, STR_Unknown}

SeriesValues == {0, 5, 7}

SeriesEntries == {[key |-> key, val |-> val] : key \in SeriesKeys, val \in SeriesValues}

\* The maps a forEach of map.set calls can build: distinct keys, any order.
SeriesMaps ==
  UNION {{map \in [1..n -> SeriesEntries] :
            \A i, j \in 1..n : i # j => map[i].key # map[j].key} : n \in 0..(MaxSeries + 1)}

InitSeries ==
  /\ sellEntries = <<>>
  /\ invoices = <<>>
  /\ otherExpenses = <<>>
  /\ expenseTypes = <<>>
  /\ tzOffset = 0
  /\ db = NoDb
  /\ NODE_ENV = ""
  /\ reqs = <<>>
  /\ call = NoCall
  /\ ret = NoRet

\* The return statements of the aggregators: one call per category map.
MapToSortedSeries(map) ==
  /\ call' = [fn |-> "mapToSortedSeries", map |-> map]
  /\ ret' = mapToSortedSeries(map)
  /\ UNCHANGED <<sellEntries, invoices, otherExpenses, expenseTypes, tzOffset, NODE_ENV, db, reqs>>

NextSeries == call = NoCall /\ \E map \in SeriesMaps : MapToSortedSeries(map)

SpecSeries == InitSeries /\ [][NextSeries]_vars

IsSeries == call.fn = "mapToSortedSeries"

\* C13: every series produced by mapToSortedSeries has its labels in strictly
\* ascending code-unit order (hence no duplicates), exactly the keys of the
\* map, a values sequence of the same length whose k-th entry is the map's
\* value for the k-th label, and "Unknown", when present, after every
\* YYYY-MM label.
C13_SeriesOrdering ==
  IsSeries =>
    /\ \A i \in 1..(Len(ret.labels) - 1) : StrLess(ret.labels[i], ret.labels[i + 1])
    /\ {ret.labels[i] : i \in 1..Len(ret.labels)}
         = {call.map[i].key : i \in 1..Len(call.map)}
    /\ Len(ret.values) = Len(ret.labels)
    /\ \A k \in 1..Len(ret.labels) :
         \E i \in 1..Len(call.map) :
           call.map[i].key = ret.labels[k] /\ call.map[i].val = ret.values[k]
    /\ \A i \in 1..Len(ret.labels) :
         ret.labels[i] = STR_Unknown => i = Len(ret.labels)

\* C13 witness: a map filled in descending order, "Unknown" first.
C13_Witness ==
  /\ IsSeries
  /\ mapKeys(call.map) = <<STR_Unknown, STR_2024_02, STR_2023_12>>
  /\ ret.labels = <<STR_2023_12, STR_2024_02, STR_Unknown>>
  /\ ret.values = <<call.map[3].val, call.map[2].val, call.map[1].val>>
  /\ ret.values[1] # ret.values[3]

(***************************************************************************)
(* The month-key specification: monthKey on stored and malformed dates     *)
(***************************************************************************)
KeyYears == {999, 1000, 2024}

KeyDates ==
  UNION {{DateStr(y, m, 1), DateStr(y, m, DaysInMonth(y, m))} : y \in KeyYears, m \in 1..12}

KeyInputs == {Str(d) : d \in KeyDates} \cup {Str(<<>>), Undefined, Str(STR_abc)}

InitKey ==
  /\ sellEntries = <<>>
  /\ invoices = <<>>
  /\ otherExpenses = <<>>
  /\ expenseTypes = <<>>
  /\ tzOffset \in TzOffsets
  /\ db = NoDb
  /\ NODE_ENV = ""
  /\ reqs = <<>>
  /\ call = NoCall
  /\ ret = NoRet

\* One call of monthKey, as made by the aggregators for each record.
MonthKey(dateStr) ==
  /\ call' = [fn |-> "monthKey", dateStr |-> dateStr]
  /\ ret' = Returned(monthKeyArg(dateStr))
  /\ UNCHANGED <<sellEntries, invoices, otherExpenses, expenseTypes, tzOffset, NODE_ENV, db, reqs>>

NextKey == call = NoCall /\ \E dateStr \in KeyInputs : MonthKey(dateStr)

SpecKey == InitKey /\ [][NextKey]_vars

IsKey == call.fn = "monthKey"

\* The input is a valid zero-padded calendar date YYYY-MM-DD.
IsStoredDate(x) == x.t = "str" /\ ParseDate(x.s).valid

\* C14: for every valid zero-padded date string YYYY-MM-DD, monthKey returns
\* the first seven characters of the string, the key of that same calendar
\* date, for every UTC offset of the host, first and last days of a month
\* included.
C14_MonthKeyLocal ==
  (IsKey /\ IsStoredDate(call.dateStr)) => ret.value = SubSeq(call.dateStr.s, 1, 7)

\* The same on hosts at or ahead of UTC for years of four digits.
C14_MonthKeyAheadOfUtc ==
  (IsKey /\ tzOffset >= 0 /\ IsStoredDate(call.dateStr)
     /\ ParseDate(call.dateStr.s).y >= 1000) => ret.value = SubSeq(call.dateStr.s, 1, 7)

\* s ends with "-MM", MM a two-digit month in 01..12, after a year of digits.
IsYearDashMonth(s) ==
  /\ Len(s) >= 4
  /\ AllDigits(SubSeq(s, 1, Len(s) - 3))
  /\ s[Len(s) - 2] = Minus
  /\ AllDigits(SubSeq(s, Len(s) - 1, Len(s)))
  /\ DigitsToNat(SubSeq(s, Len(s) - 1, Len(s))) \in 1..12

\* s has the form YYYY-MM: a four-digit year and a two-digit month.
IsYYYYMM(s) == Len(s) = 7 /\ IsYearDashMonth(s)

\* Empty, missing or unparseable input.
IsUnparseable(x) == ~Truthy(x) \/ ~ParseDate(x.s).valid

\* The year of the local calendar date the input denotes on this host.
LocalYear(x) == LocalDate(ParseDate(x.s)).y

C15_ShortYear ==
  /\ IsKey
  /\ call.dateStr = Str(DateStr(999, 3, 31))
  /\ ret = Returned(<<57, 57, 57, 45, 48, 51>>)

startsWith(s, prefix) == Len(s) >= Len(prefix) /\ SubSeq(s, 1, Len(prefix)) = prefix

\* The data-pl-month attribute of the cell of month index i, and monthStr.
plMonth(i) == padStart2(NumToStr(i + 1))

monthStr(year, month) == NumToStr(year) \o <<Minus>> \o month

\* The labels of the rows whose cells get a click handler: every row with a
\* data-pl-label except Gross Profit, Net Sales, Total... and Earnings...
clickableLabels(data) ==
  {"Cost of Goods Sold (Purchases)", "Net Earnings"}
    \cup {data.expenseRows[k].key : k \in 1..Len(data.expenseRows)}

\* The values shown in the row labelled label.
rowValues(data, label) ==
  IF label = "Cost of Goods Sold (Purchases)" THEN data.cogs
  ELSE IF label = "Net Earnings" THEN data.net
  ELSE MapGet(data.expenseRows, label)

RECURSIVE invoiceDetailRows(_, _, _)
invoiceDetailRows(k, prefix, product) ==
  IF k > Len(invoices) THEN <<>>
  ELSE LET inv == invoices[k] IN
       IF isProduct(inv) = product /\ startsWith(inv.invoiceDate, prefix)
       THEN <<[date |-> inv.invoiceDate, amount |-> Num(computeInvoiceTotal(inv.items))]>>
              \o invoiceDetailRows(k + 1, prefix, product)
       ELSE invoiceDetailRows(k + 1, prefix, product)

\* state.expenseTypes.find(t => t.name === label)?.id || ''
findTypeId(label) ==
  IF \E k \in 1..Len(expenseTypes) : expenseTypes[k].name = label
  THEN LET first == CHOOSE k \in 1..Len(expenseTypes) :
                      /\ expenseTypes[k].name = label
                      /\ \A j \in 1..(k - 1) : expenseTypes[j].name # label
       IN expenseTypes[first].id
  ELSE ""

RECURSIVE expenseDetailRows(_, _, _)
expenseDetailRows(k, prefix, typeId) ==
  IF k > Len(otherExpenses) THEN <<>>
  ELSE LET e == otherExpenses[k] IN
       IF e.typeId = typeId /\ startsWith(e.date, prefix)
       THEN <<[date |-> e.date, amount |-> ToNumber(e.amount)]>>
              \o expenseDetailRows(k + 1, prefix, typeId)
       ELSE expenseDetailRows(k + 1, prefix, typeId)

\* The body rows of the details table (rows.slice(1)): date and amount.
openPLDetails(year, month, label) ==
  IF label = "Invoice Expenses" THEN invoiceDetailRows(1, monthStr(year, month), FALSE)
  ELSE IF label = "Cost of Goods Sold (Purchases)"
    THEN invoiceDetailRows(1, monthStr(year, month), TRUE)
  ELSE expenseDetailRows(1, monthStr(year, month), findTypeId(label))

DetailYears == {2024}

DetailMonthIdx == {0, 1, 11}

DetailInvoices ==
  {Invoice(d, t, PLItems) : d \in {DateStr(2024, 1, 20), DateStr(2024, 2, 1)},
                            t \in {Str(STR_Product), Str(STR_service), Undefined}}

DetailExpenses ==
  {OtherExpense(d, id, Num(50)) : d \in {DateStr(2024, 2, 1), DateStr(2024, 2, 15)},
                                  id \in {"rent", "wage", "zzz", ""}}

InitDetails ==
  /\ sellEntries = <<>>
  /\ \E b \in 0..MaxLedger : \E c \in 0..(MaxLedger - b) :
       /\ invoices \in [1..b -> DetailInvoices]
       /\ otherExpenses \in [1..c -> DetailExpenses]
  /\ expenseTypes \in Catalogs
  /\ tzOffset \in TzOffsets
  /\ db = NoDb
  /\ NODE_ENV = ""
  /\ reqs = <<>>
  /\ call = NoCall
  /\ ret = NoRet

\* A click on the cell of month index i in the row labelled label of the
\* table rendered for year: the handler opens the details of that cell.
ClickCell(year, i, data) ==
  \E label \in clickableLabels(data) :
    /\ call' = [fn |-> "openPLDetails", year |-> year, idx |-> i, label |-> label,
                cell |-> rowValues(data, label)[i],
                isExpenseRow |-> MapHas(data.expenseRows, label)]
    /\ ret' = openPLDetails(year, plMonth(i), label)
    /\ UNCHANGED <<sellEntries, invoices, otherExpenses, expenseTypes, tzOffset, NODE_ENV, db, reqs>>

NextDetails ==
  /\ call = NoCall
  /\ \E year \in DetailYears : \E data \in {calcPLForYear(year)} :
       \E i \in DetailMonthIdx : ClickCell(year, i, data)

SpecDetails == InitDetails /\ [][NextDetails]_vars

IsDetails == call.fn = "openPLDetails"

\* The invoices calcPLForYear adds into the cell of month index i of the
\* cogs row (product) or of the "Invoice Expenses" row, in ledger order.
RECURSIVE AddedInvoices(_, _, _, _)
AddedInvoices(k, year, i, product) ==
  IF k > Len(invoices) THEN <<>>
  ELSE LET inv == invoices[k] IN
       IF ~skipRecord(inv.invoiceDate, year) /\ getMonth(inv.invoiceDate) = i
          /\ isProduct(inv) = product
       THEN <<[date |-> inv.invoiceDate, amount |-> Num(computeInvoiceTotal(inv.items))]>>
              \o AddedInvoices(k + 1, year, i, product)
       ELSE AddedInvoices(k + 1, year, i, product)

\* The other expenses calcPLForYear adds into the cell of month index i of
\* the row labelled label.
RECURSIVE AddedExpenses(_, _, _, _)
AddedExpenses(k, year, i, label) ==
  IF k > Len(otherExpenses) THEN <<>>
  ELSE LET e == otherExpenses[k] IN
       IF ~skipRecord(e.date, year) /\ getMonth(e.date) = i /\ typeName(e.typeId) = label
       THEN <<[date |-> e.date, amount |-> Num(parseNumber(e.amount))]>>
              \o AddedExpenses(k + 1, year, i, label)
       ELSE AddedExpenses(k + 1, year, i, label)

ListedSum == SeqSum([k \in 1..Len(ret) |-> ret[k].amount.v])

IsInvoiceRow == call.label \in {"Invoice Expenses", "Cost of Goods Sold (Purchases)"}

\* C16: the invoices listed by openPLDetails for the "Invoice Expenses" row
\* (resp. the COGS row) are exactly the non-product (resp. product) invoices
\* calcPLForYear added into that row's cell for that month, and the listed
\* totals sum to the cell's value.
C16_InvoiceDrillDown ==
  (IsDetails /\ IsInvoiceRow) =>
    /\ ret = AddedInvoices(1, call.year, call.idx,
                           call.label = "Cost of Goods Sold (Purchases)")
    /\ ListedSum = call.cell

\* The same on hosts at or ahead of UTC when no expense type is named
\* "Invoice Expenses".
C16_InvoiceDrillDownAheadOfUtc ==
  (tzOffset >= 0 /\ \A k \in 1..Len(expenseTypes) : expenseTypes[k].name # "Invoice Expenses")
    => C16_InvoiceDrillDown

\* C17: for every expense-row label, the other expenses listed by
\* openPLDetails are exactly the records calcPLForYear added into that row's
\* cell (for a type-named row the records whose typeId resolves to the name,
\* for "Other" the records whose typeId matches no catalog entry), and the
\* listed amounts sum to the cell's value.
C17_ExpenseDrillDown ==
  (IsDetails /\ call.isExpenseRow /\ ~IsInvoiceRow) =>
    /\ ret = AddedExpenses(1, call.year, call.idx, call.label)
    /\ ListedSum = call.cell

\* The same on hosts at or ahead of UTC when the catalog names are distinct
\* and every record's typeId is in the catalog.
C17_ExpenseDrillDownResolved ==
  (/\ tzOffset >= 0
   /\ \A j, k \in 1..Len(expenseTypes) :
        j # k => expenseTypes[j].name # expenseTypes[k].name
   /\ \A k \in 1..Len(otherExpenses) : MapHas(typeById, otherExpenses[k].typeId))
    => C17_ExpenseDrillDown

(***************************************************************************)
(* The exported rows                                                       *)
(***************************************************************************)
\* The export button alone, on every ledger snapshot.
NextExport == \E year \in Years : ExportPL(year)

SpecExport == InitPL /\ [][NextExport]_vars

\* The number a formatted cell denotes: the text before ".00".
CellValue(cell) == parseNumber(Str(SubSeq(cell, 1, Len(cell) - 3)))

\* row is a data row of 14 cells: the label, the twelve values of vals in
\* month order to two decimals, and a last cell equal to their sum.
IsDataRow(row, label, vals) ==
  /\ row.label = label
  /\ Len(row.cells) = 13
  /\ \A i \in MonthIdx :
       /\ row.cells[i + 1] = toFixed2(vals[i])
       /\ SubSeq(row.cells[i + 1], Len(row.cells[i + 1]) - 2, Len(row.cells[i + 1]))
            = <<46, Zero, Zero>>
  /\ CellValue(row.cells[13]) = SeqSum([c \in 1..12 |-> CellValue(row.cells[c])])

ExportContract(rows, d) ==
  LET n == Len(d.expenseRows) IN
  /\ Len(rows) = n + 7
  /\ IsDataRow(rows[1], "Net Sales", d.sales)
  /\ IsDataRow(rows[2], "COGS (Products)", d.cogs)
  /\ IsDataRow(rows[3], "Gross Profit", d.grossProfit)
  /\ rows[4] = [label |-> "Operating Expenses"]
  /\ \A k \in 1..n : IsDataRow(rows[4 + k], d.expenseRows[k].key, d.expenseRows[k].val)
  /\ IsDataRow(rows[n + 5], "Total Operating Expenses", d.otherExpensesSum)
  /\ IsDataRow(rows[n + 6], "EBIT", d.ebit)
  /\ IsDataRow(rows[n + 7], "Net Earnings", d.net)

\* C18: after the column header exportPLCsv emits the rows Sales, COGS,
\* Gross Profit, a one-cell section header, each expense row in expenseRows
\* order, Total Operating Expenses, EBIT, Net Earnings; every row but the
\* section header has 14 cells: a label, the row's twelve monthly values in
\* month order and a full-year total equal to their sum.
C18_ExportRows ==
  IsExport => \A d \in {calcPLForYear(call.year)} : ExportContract(ret, d)

\* C18 witness: an export with two expense rows, expenses in the year and a
\* negative Net Earnings total.
C18_Witness ==
  /\ IsExport
  /\ Len(ret) = 9
  /\ ret[5].total + ret[6].total > 0
  /\ ret[9].cells[13] = <<Minus, 53, 48, 46, Zero, Zero>>

(***************************************************************************)
(* Repeated calls of calcPLForYear on one snapshot                         *)
(***************************************************************************)
\* The year select changed back to the same year (or the tab reopened):
\* renderPLTable calls calcPLForYear again on the ledger as it is.
CalcPLAgain(year) ==
  /\ call = [fn |-> "calcPLForYear", year |-> year]
  /\ call' = [fn |-> "calcPLForYear", year |-> year, again |-> TRUE]
  /\ ret' = calcPLForYear(year)
  /\ UNCHANGED <<sellEntries, invoices, otherExpenses, expenseTypes, tzOffset, NODE_ENV, db, reqs>>

NextIdem ==
  \/ \E year \in Years : CalcPL(year)
  \/ \E year \in Years : CalcPLAgain(year)

SpecIdem == InitPL /\ [][NextIdem]_vars

used(id) == \E k \in 1..Len(otherExpenses) : otherExpenses[k].typeId = id

\* state.expenseTypes.filter(t => t.id !== id)
RECURSIVE filterTypes(_, _)
filterTypes(types, id) ==
  IF types = <<>> THEN <<>>
  ELSE IF Head(types).id # id THEN <<Head(types)>> \o filterTypes(Tail(types), id)
  ELSE filterTypes(Tail(types), id)

\* persist(): the collections as written to storage.
persisted(types, expenses) == [expenseTypes |-> types, otherExpenses |-> expenses]

TypeExpenses ==
  {OtherExpense(DateStr(2024, 2, 1), t, Num(50)) : t \in {"rent", "wage", "office", "zzz"}}

InitTypes ==
  /\ sellEntries = <<>>
  /\ invoices = <<>>
  /\ \E c \in 0..MaxLedger : otherExpenses \in [1..c -> TypeExpenses]
  /\ expenseTypes \in Catalogs
  /\ tzOffset = 0
  /\ db = NoDb
  /\ NODE_ENV = ""
  /\ reqs = <<>>
  /\ call = NoCall
  /\ ret = NoRet

\* The delete button of a catalog row without the check for use.
DeleteExpenseType_NoUsedCheck(id, confirmed) ==
  /\ \E k \in 1..Len(expenseTypes) : expenseTypes[k].id = id
  /\ call' = [fn |-> "deleteExpenseType", id |-> id, alerted |-> FALSE,
              confirmed |-> confirmed]
  /\ IF ~confirmed
     THEN UNCHANGED <<expenseTypes, ret>>
     ELSE /\ expenseTypes' = filterTypes(expenseTypes, id)
          /\ ret' = persisted(expenseTypes', otherExpenses)
  /\ UNCHANGED <<sellEntries, invoices, otherExpenses, tzOffset, NODE_ENV, db, reqs>>

\* The delete button of a catalog row: alert and return when the type is
\* used, return when the user declines, else filter, persist and re-render.
DeleteExpenseType(id, confirmed) ==
  /\ \E k \in 1..Len(expenseTypes) : expenseTypes[k].id = id
  /\ call' = [fn |-> "deleteExpenseType", id |-> id, alerted |-> used(id),
              confirmed |-> ~used(id) /\ confirmed]
  /\ IF used(id) \/ ~confirmed
     THEN UNCHANGED <<expenseTypes, ret>>
     ELSE /\ expenseTypes' = filterTypes(expenseTypes, id)
          /\ ret' = persisted(expenseTypes', otherExpenses)
  /\ UNCHANGED <<sellEntries, invoices, otherExpenses, tzOffset, NODE_ENV, db, reqs>>

\* The delete button of an other-expense row, confirmed: the record goes.
DeleteOtherExpense(k) ==
  /\ k \in 1..Len(otherExpenses)
  /\ otherExpenses' = SubSeq(otherExpenses, 1, k - 1)
                        \o SubSeq(otherExpenses, k + 1, Len(otherExpenses))
  /\ call' = [fn |-> "deleteOtherExpense"]
  /\ ret' = persisted(expenseTypes, otherExpenses')
  /\ UNCHANGED <<sellEntries, invoices, expenseTypes, tzOffset, NODE_ENV, db, reqs>>

NextTypes ==
  \/ \E id \in {"rent", "wage", "office", "other"}, confirmed \in BOOLEAN :
       DeleteExpenseType(id, confirmed)
  \/ \E k \in 1..MaxLedger : DeleteOtherExpense(k)

SpecTypes == InitTypes /\ [][NextTypes]_vars

\* C20: the delete handler of an expense type removes the type only when no
\* other-expense record has that typeId; when at least one does, the catalog
\* and all other state are left unchanged.
C20_TypeReferentialIntegrity ==
  [][/\ expenseTypes' # expenseTypes =>
          /\ call'.fn = "deleteExpenseType"
          /\ ~used(call'.id)
          /\ expenseTypes' = filterTypes(expenseTypes, call'.id)
     /\ (call'.fn = "deleteExpenseType" /\ used(call'.id)) =>
          /\ call'.alerted
          /\ UNCHANGED <<sellEntries, invoices, otherExpenses, expenseTypes, tzOffset, NODE_ENV, ret, db, reqs>>]_vars

\* A record whose type is in the catalog before a step still finds it there
\* after the step.
C20_NoDanglingCreated ==
  [][\A k \in 1..Len(otherExpenses') :
       MapHas(typeById, otherExpenses'[k].typeId)
         => \E j \in 1..Len(expenseTypes') : expenseTypes'[j].id = otherExpenses'[k].typeId]_vars

\* C20 witness: a delete refused for a type in use, the type still listed,
\* after an earlier delete of an unused type went through.
C20_Witness ==
  /\ call.fn = "deleteExpenseType"
  /\ call.alerted
  /\ used(call.id)
  /\ \E k \in 1..Len(expenseTypes) : expenseTypes[k].id = call.id
  /\ ret # NoRet
  /\ Len(ret.expenseTypes) = 1
  /\ expenseTypes = ret.expenseTypes

(***************************************************************************)
(* Editing a sale: openSellEditModal and its submit and close handlers     *)
(***************************************************************************)
EditDates == {DateStr(2024, 1, 15), DateStr(2024, 2, 1)}

EditTypes == {"fiscal", "non-fiscal"}

EditAmounts == {Str(<<49, 50>>), Str(<<>>), Str(STR_abc)}

EditSales == {Sale(d, t, Num(100)) : d \in EditDates, t \in EditTypes}

InitSellEdit ==
  /\ \E a \in 1..MaxLedger : sellEntries \in [1..a -> EditSales]
  /\ invoices = <<>>
  /\ otherExpenses = <<>>
  /\ expenseTypes = <<>>
  /\ tzOffset = 0
  /\ db = NoDb
  /\ NODE_ENV = ""
  /\ reqs = <<>>
  /\ call = NoCall
  /\ ret = NoRet

\* The edit button of row k: the modal opens on that entry, its fields
\* filled from the entry.
openSellEditModal(k) ==
  /\ call.fn # "openSellEditModal"
  /\ k \in 1..Len(sellEntries)
  /\ call' = [fn |-> "openSellEditModal", entry |-> k]
  /\ UNCHANGED <<sellEntries, invoices, otherExpenses, expenseTypes, tzOffset, NODE_ENV, ret, db, reqs>>

\* onSubmit: every field of the entry is assigned from the form, the type
\* select included; then persist().
onSubmit(date, type, amount) ==
  /\ call.fn = "openSellEditModal"
  /\ sellEntries' = [sellEntries EXCEPT ![call.entry] =
                       [date |-> date, type |-> type, amount |-> Num(parseNumber(amount))]]
  /\ call' = [fn |-> "sellEditSubmit", entry |-> call.entry]
  /\ ret' = [sellEntries |-> sellEntries']
  /\ UNCHANGED <<invoices, otherExpenses, expenseTypes, tzOffset, NODE_ENV, db, reqs>>

\* onClose: the modal is hidden, nothing is assigned.
onClose ==
  /\ call.fn = "openSellEditModal"
  /\ call' = [fn |-> "sellEditClose", entry |-> call.entry]
  /\ UNCHANGED <<sellEntries, invoices, otherExpenses, expenseTypes, tzOffset, NODE_ENV, ret, db, reqs>>

NextSellEdit ==
  \/ \E k \in 1..MaxLedger : openSellEditModal(k)
  \/ \E date \in EditDates, type \in EditTypes, amount \in EditAmounts :
       onSubmit(date, type, amount)
  \/ onClose

SpecSellEdit == InitSellEdit /\ [][NextSellEdit]_vars

\* C21: no edit operation changes the type of a sale entry: editing may
\* change its amount and leaves the type as it was created.
C21_SaleTypeImmutable ==
  [][\A k \in 1..Len(sellEntries) : sellEntries'[k].type = sellEntries[k].type]_vars

\* What the handlers do keep: the number and order of the entries, and every
\* entry other than the one edited.
C21_OtherEntriesKept ==
  [][/\ Len(sellEntries') = Len(sellEntries)
     /\ \A k \in 1..Len(sellEntries) :
          sellEntries'[k] # sellEntries[k] => (call.fn = "openSellEditModal" /\ call.entry = k)]_vars

(***************************************************************************)
(* The server: lowdb database, requests and their handlers                 *)
(*                                                                         *)
(* db.file is the JSON file, db.data the in-memory db.data, db.writes the  *)
(* db.write() calls not yet on disk, each with the data serialised when it *)
(* was called.  A handler runs from one await to the next in one step; its *)
(* pc names the await it is suspended at.                                  *)
(***************************************************************************)
MaxRequests == 2

Data(users, entries) ==
  [users |-> users, sellEntries |-> entries, invoices |-> <<>>, otherExpenses |-> <<>>]

\* db.data = { users: [], sellEntries: [], invoices: [], otherExpenses: [] }
EmptyData == Data(<<>>, <<>>)

\* The user pushed by ensureAdminUserExists.
AdminUser == [id |-> "admin_user", username |-> "admin"]

NoBody == [none |-> TRUE]

Request(route, auth, body) ==
  [route |-> route, auth |-> auth, body |-> body, pc |-> "start", status |-> 0,
   sent |-> NoBody]

\* res.status(status).json(sent) / res.sendStatus(status): the handler ends.
Respond(r, status, sent) ==
  reqs' = [reqs EXCEPT ![r].pc = "done", ![r].status = status, ![r].sent = sent]

\* The handler of request r suspends at the await named pc.
Await(r, pc) == reqs' = [reqs EXCEPT ![r].pc = pc]

\* The data file does not exist (yet).
NoFile == [none |-> TRUE]

\* await db.read(), resumed: db.data is replaced by the contents of the file;
\* it is left as it is when there is no file.
dbRead == IF db.file = NoFile THEN db ELSE [db EXCEPT !.data = db.file]

\* db.write() called on d: db.data is serialised now, the file follows later.
dbWrite(d, r) == [d EXCEPT !.writes = Append(d.writes, [req |-> r, snapshot |-> d.data])]

\* The oldest write in flight reaches the file.
dbWritten == [db EXCEPT !.file = Head(db.writes).snapshot, !.writes = Tail(db.writes)]

\* authHeader && authHeader.split(' ')[1]: the second word of the header,
\* "" standing for undefined.
tokenOf(auth) == IF Len(auth) >= 2 THEN auth[2] ELSE ""

\* jwt.verify(token, secret): no error exactly for a token signed with the
\* secret and not expired.
verify(token) == token = "good"

\* The middleware without the verification of the token.
authenticateToken_NoVerify(req) == IF tokenOf(req.auth) = "" THEN 401 ELSE 0

\* authenticateToken: the status sent, or 0 when next() is called.
authenticateToken(req) ==
  IF tokenOf(req.auth) = "" THEN 401
  ELSE IF ~verify(tokenOf(req.auth)) THEN 403
  ELSE 0

\* parseFloat(amount) for a number or a string of digits; NaN otherwise.
parseFloat(x) ==
  IF x.t = "str" /\ x.s = <<>> THEN NaN ELSE ToNumber(x)

\* The entry built by POST /api/sell-entries from the request body.
entryOf(body) ==
  [id |-> body.id, date |-> body.date, type |-> body.type,
   description |-> body.description, amount |-> parseFloat(body.amount)]

\* db.data.sellEntries.findIndex(e => e.id === id), 0 standing for -1.
findIndex(entries, id) ==
  IF \E k \in 1..Len(entries) : entries[k].id = id
  THEN CHOOSE k \in 1..Len(entries) :
         entries[k].id = id /\ \A j \in 1..(k - 1) : entries[j].id # id
  ELSE 0

\* if (idx >= 0) sellEntries[idx] = entry; else sellEntries.push(entry)
upsert(entries, entry) ==
  LET idx == findIndex(entries, entry.id)
  IN IF idx > 0 THEN [entries EXCEPT ![idx] = entry] ELSE Append(entries, entry)

\* GET /api/sell-entries arrives: the middleware, then await db.read().
GetSellEntries(r) ==
  /\ r \in 1..Len(reqs)
  /\ reqs[r].route = "GET /api/sell-entries"
  /\ reqs[r].pc = "start"
  /\ IF authenticateToken(reqs[r]) # 0
     THEN Respond(r, authenticateToken(reqs[r]), NoBody)
     ELSE Await(r, "read")
  /\ UNCHANGED <<sellEntries, invoices, otherExpenses, expenseTypes, tzOffset, NODE_ENV, call, ret, db>>

\* GET resumed after db.read(): res.json(db.data.sellEntries).
GetSellEntriesRead(r) ==
  /\ r \in 1..Len(reqs)
  /\ reqs[r].route = "GET /api/sell-entries"
  /\ reqs[r].pc = "read"
  /\ db' = dbRead
  /\ Respond(r, 200, db'.data.sellEntries)
  /\ UNCHANGED <<sellEntries, invoices, otherExpenses, expenseTypes, tzOffset, NODE_ENV, call, ret>>

\* POST /api/sell-entries arrives: the middleware, the check of the body,
\* then await db.read().
PostSellEntry(r) ==
  /\ r \in 1..Len(reqs)
  /\ reqs[r].route = "POST /api/sell-entries"
  /\ reqs[r].pc = "start"
  /\ LET body == reqs[r].body IN
     IF authenticateToken(reqs[r]) # 0
     THEN Respond(r, authenticateToken(reqs[r]), NoBody)
     ELSE IF body.id = "" \/ body.date = <<>> \/ body.type = "" \/ body.description = ""
             \/ body.amount = Undefined
       THEN Respond(r, 400, NoBody)
     ELSE Await(r, "read")
  /\ UNCHANGED <<sellEntries, invoices, otherExpenses, expenseTypes, tzOffset, NODE_ENV, call, ret, db>>

\* POST resumed after db.read(): the entry replaces the one with its id or
\* is pushed, and db.write() is called.
PostSellEntryRead(r) ==
  /\ r \in 1..Len(reqs)
  /\ reqs[r].route = "POST /api/sell-entries"
  /\ reqs[r].pc = "read"
  /\ db' = dbWrite([dbRead EXCEPT !.data.sellEntries = upsert(@, entryOf(reqs[r].body))], r)
  /\ Await(r, "write")
  /\ UNCHANGED <<sellEntries, invoices, otherExpenses, expenseTypes, tzOffset, NODE_ENV, call, ret>>

\* POST resumed after db.write(): 201 with the entry.
PostSellEntryWritten(r) ==
  /\ r \in 1..Len(reqs)
  /\ reqs[r].route = "POST /api/sell-entries"
  /\ reqs[r].pc = "write"
  /\ db.writes # <<>> /\ Head(db.writes).req = r
  /\ db' = dbWritten
  /\ Respond(r, 201, entryOf(reqs[r].body))
  /\ UNCHANGED <<sellEntries, invoices, otherExpenses, expenseTypes, tzOffset, NODE_ENV, call, ret>>

(***************************************************************************)
(* The sell-entry endpoints under every kind of Authorization header       *)
(***************************************************************************)
SellBody(id, amount) ==
  [id |-> id, date |-> DateStr(2024, 1, 15), type |-> "fiscal", description |-> "Z1",
   amount |-> amount]

StoredEntry(id, n) == entryOf(SellBody(id, Num(n)))

\* No header, a header with no token, an invalid token, a valid token, and
\* a valid token after another scheme word.
AuthHeaders ==
  {<<>>, <<"Bearer">>, <<"Bearer", "bad">>, <<"Bearer", "good">>, <<"Basic", "good">>}

AuthRequests ==
  {Request("GET /api/sell-entries", auth, NoBody) : auth \in AuthHeaders}
    \cup {Request("POST /api/sell-entries", auth, body) :
            auth \in AuthHeaders,
            body \in {SellBody("s1", Num(70)), SellBody("s2", Str(<<49, 50>>)),
                      SellBody("", Num(70))}}

\* The database after start-up: the file holds the admin and what earlier
\* runs stored, and db.data is what the start-up read.
Started(data) == [file |-> data, data |-> data, writes |-> <<>>]

InitAuth ==
  /\ sellEntries = <<>>
  /\ invoices = <<>>
  /\ otherExpenses = <<>>
  /\ expenseTypes = <<>>
  /\ tzOffset = 0
  /\ call = NoCall
  /\ ret = NoRet
  /\ db = Started(Data(<<AdminUser>>, <<StoredEntry("s1", 100)>>))
  /\ NODE_ENV = "development"
  /\ \E n \in 1..MaxRequests : reqs \in [1..n -> AuthRequests]

NextAuth ==
  \/ \E r \in 1..MaxRequests : GetSellEntries(r)
  \/ \E r \in 1..MaxRequests : GetSellEntriesRead(r)
  \/ \E r \in 1..MaxRequests : PostSellEntry(r)
  \/ \E r \in 1..MaxRequests : PostSellEntryRead(r)
  \/ \E r \in 1..MaxRequests : PostSellEntryWritten(r)

SpecAuth == InitAuth /\ [][NextAuth]_vars

\* The request carries no token / a token that does not verify.
NoToken(req) == tokenOf(req.auth) = ""

BadToken(req) == ~NoToken(req) /\ ~verify(tokenOf(req.auth))

\* C22: GET and POST /api/sell-entries are served only for requests carrying
\* a valid token; a request with no token is answered 401 and one with an
\* invalid token 403, nothing is sent back to either, and no step of such a
\* request changes the database.
C22_SellEntriesRequireAuth ==
  /\ [](\A r \in 1..Len(reqs) :
          /\ reqs[r].pc \notin {"start", "done"} => verify(tokenOf(reqs[r].auth))
          /\ reqs[r].status \in {200, 201} => verify(tokenOf(reqs[r].auth))
          /\ (reqs[r].pc = "done" /\ NoToken(reqs[r])) =>
               reqs[r].status = 401 /\ reqs[r].sent = NoBody
          /\ (reqs[r].pc = "done" /\ BadToken(reqs[r])) =>
               reqs[r].status = 403 /\ reqs[r].sent = NoBody)
  /\ [][\A r \in 1..Len(reqs) :
          (reqs'[r] # reqs[r] /\ ~verify(tokenOf(reqs[r].auth))) => db' = db]_vars

\* C22 witness: a POST without a token refused with 401 and a GET with an
\* invalid token refused with 403, the stored entries as they were.
C22_Witness ==
  /\ Len(reqs) = 2
  /\ reqs[1].route = "POST /api/sell-entries" /\ reqs[1].auth = <<"Bearer">>
  /\ reqs[1].body.id = "s2" /\ reqs[1].status = 401
  /\ reqs[2].route = "GET /api/sell-entries" /\ reqs[2].auth = <<"Bearer", "bad">>
  /\ reqs[2].status = 403
  /\ db.file.sellEntries = <<StoredEntry("s1", 100)>>

(***************************************************************************)
(* The rows of expenseRows                                                 *)
(***************************************************************************)
\* At least one non-product invoice is dated in the year.
HasInvoiceExpense(year) ==
  \E k \in 1..Len(invoices) :
    DatedIn(invoices[k].invoiceDate, year) /\ ~SaysProduct(invoices[k])

\* C23: in the expenseRows of every table the row labelled "Invoice
\* Expenses" is present if and only if at least one non-product invoice is
\* dated in the year; when present it is the first row, ahead of every
\* type-named row, and holds the per-month sums of those invoices' totals.
C23_InvoiceExpensesRow ==
  IsPL =>
    /\ MapHas(ret.expenseRows, "Invoice Expenses") <=> HasInvoiceExpense(call.year)
    /\ MapHas(ret.expenseRows, "Invoice Expenses") =>
         /\ ret.expenseRows[1].key = "Invoice Expenses"
         /\ \A m \in MonthIdx :
              ret.expenseRows[1].val[m] = SeqSum(NonProductTotals(call.year, m + 1))

\* The same for catalogs with no type named "Invoice Expenses".
C23_InvoiceExpensesRowNoCollision ==
  (\A k \in 1..Len(expenseTypes) : expenseTypes[k].name # "Invoice Expenses")
    => C23_InvoiceExpensesRow

\* The labels of the rows of a table that carry the name of a declared type.
RECURSIVE TypeRowKeys(_)
TypeRowKeys(rows) ==
  IF rows = <<>> THEN <<>>
  ELSE IF \E k \in 1..Len(expenseTypes) : expenseTypes[k].name = Head(rows).key
    THEN <<Head(rows).key>> \o TypeRowKeys(Tail(rows))
  ELSE TypeRowKeys(Tail(rows))

\* The names of the catalog in catalog order, one entry per declared type.
CatalogNames == [k \in 1..Len(expenseTypes) |-> expenseTypes[k].name]

\* The names of the catalog in order of first occurrence, each once.
RECURSIVE DistinctNames(_, _)
DistinctNames(k, seen) ==
  IF k > Len(expenseTypes) THEN seen
  ELSE IF SeqHas(seen, expenseTypes[k].name) THEN DistinctNames(k + 1, seen)
  ELSE DistinctNames(k + 1, Append(seen, expenseTypes[k].name))

\* No in-year expense resolves to the name.
NoExpenseOf(name, year) ==
  \A k \in 1..Len(otherExpenses) :
    ~(DatedIn(otherExpenses[k].date, year) /\ typeName(otherExpenses[k].typeId) = name)

\* Every type-named row without expenses in the year is all zeros.
ZeroRows(rows, year) ==
  \A k \in 1..Len(rows) :
    (rows[k].key # "Invoice Expenses" /\ NoExpenseOf(rows[k].key, year))
      => rows[k].val = initRow

\* C24: for every year expenseRows contains one row per declared expense
\* type, in catalog order, all zeros when the year has no expenses of the
\* type; the type-named rows are therefore the same, in the same order, for
\* every year.
C24_StableRows ==
  IsPL =>
    /\ TypeRowKeys(ret.expenseRows) = CatalogNames
    /\ ZeroRows(ret.expenseRows, call.year)

\* What the seeding does guarantee when no type is named "Invoice Expenses":
\* one row per distinct declared type name, in order of first occurrence in
\* the catalog, all zeros when the year has no expenses under that name.
C24_RowsPerDistinctName ==
  (IsPL /\ \A k \in 1..Len(expenseTypes) : expenseTypes[k].name # "Invoice Expenses") =>
    /\ TypeRowKeys(ret.expenseRows) = DistinctNames(1, <<>>)
    /\ ZeroRows(ret.expenseRows, call.year)

\* Three declared types, two of them named "Rent", and a year with no other
\* expenses: two zero rows, "Rent" and "Other".
C24_TwoRowsForThreeTypes ==
  /\ IsPL
  /\ Len(expenseTypes) = 3
  /\ \A k \in 1..Len(otherExpenses) : ~DatedIn(otherExpenses[k].date, call.year)
  /\ Len(otherExpenses) > 0
  /\ TypeRowKeys(ret.expenseRows) = <<"Rent", "Other">>
  /\ \A k \in 1..Len(ret.expenseRows) :
       ret.expenseRows[k].key \in {"Rent", "Other"} => ret.expenseRows[k].val = initRow

\* The label an other expense belongs under: the name of the declared type
\* with its typeId, "Other" when no declared type has that id.
RowLabelOf(exp) ==
  IF \E k \in 1..Len(expenseTypes) : expenseTypes[k].id = exp.typeId
  THEN (CHOOSE t \in {expenseTypes[k] : k \in 1..Len(expenseTypes)} : t.id = exp.typeId).name
  ELSE "Other"

\* Amounts of the in-year other expenses that belong under a label, at a
\* month index (the index calcPLForYear computes from the date).
LabelAmounts(label, year, idx) ==
  [k \in 1..Len(otherExpenses) |->
     IF /\ DatedIn(otherExpenses[k].date, year)
        /\ RowLabelOf(otherExpenses[k]) = label
        /\ getMonth(otherExpenses[k].date) = idx
     THEN parseNumber(otherExpenses[k].amount) ELSE 0]

HasAdmin(data) == \E k \in 1..Len(data.users) : data.users[k].username = "admin"

\* ensureAdminUserExists has returned to its caller r, db being d: the
\* start-up block is over; the reset handler calls db.write().
ensureAdminReturns(r, d) ==
  IF reqs[r].route = "start-up"
  THEN db' = d /\ reqs' = [reqs EXCEPT ![r].pc = "done"]
  ELSE db' = dbWrite(d, r) /\ Await(r, "resetWrite")

\* POST /api/admin/reset arrives: refused in production; otherwise db.data
\* is emptied and ensureAdminUserExists is called: await db.read().
AdminReset(r) ==
  /\ r \in 1..Len(reqs)
  /\ reqs[r].route = "POST /api/admin/reset"
  /\ reqs[r].pc = "start"
  /\ IF NODE_ENV = "production"
     THEN Respond(r, 403, NoBody) /\ UNCHANGED db
     ELSE db' = [db EXCEPT !.data = EmptyData] /\ Await(r, "ensureRead")
  /\ UNCHANGED <<sellEntries, invoices, otherExpenses, expenseTypes, tzOffset, NODE_ENV, call, ret>>

\* ensureAdminUserExists resumed after db.read(): it returns when a user
\* "admin" exists, else awaits bcrypt.hash.
EnsureAdminRead(r) ==
  /\ r \in 1..Len(reqs)
  /\ reqs[r].pc = "ensureRead"
  /\ IF HasAdmin(dbRead.data)
     THEN ensureAdminReturns(r, dbRead)
     ELSE db' = dbRead /\ Await(r, "ensureHash")
  /\ UNCHANGED <<sellEntries, invoices, otherExpenses, expenseTypes, tzOffset, NODE_ENV, call, ret>>

\* Resumed after bcrypt.hash: the admin is pushed and db.write() is called.
EnsureAdminHashed(r) ==
  /\ r \in 1..Len(reqs)
  /\ reqs[r].pc = "ensureHash"
  /\ db' = dbWrite([db EXCEPT !.data.users = Append(@, AdminUser)], r)
  /\ Await(r, "ensureWrite")
  /\ UNCHANGED <<sellEntries, invoices, otherExpenses, expenseTypes, tzOffset, NODE_ENV, call, ret>>

\* Resumed after db.write(): ensureAdminUserExists returns.
EnsureAdminWritten(r) ==
  /\ r \in 1..Len(reqs)
  /\ reqs[r].pc = "ensureWrite"
  /\ db.writes # <<>> /\ Head(db.writes).req = r
  /\ ensureAdminReturns(r, dbWritten)
  /\ UNCHANGED <<sellEntries, invoices, otherExpenses, expenseTypes, tzOffset, NODE_ENV, call, ret>>

\* The reset handler resumed after its own db.write(): res.json({ ok: true }).
AdminResetWritten(r) ==
  /\ r \in 1..Len(reqs)
  /\ reqs[r].pc = "resetWrite"
  /\ db.writes # <<>> /\ Head(db.writes).req = r
  /\ db' = dbWritten
  /\ Respond(r, 200, [ok |-> TRUE])
  /\ UNCHANGED <<sellEntries, invoices, otherExpenses, expenseTypes, tzOffset, NODE_ENV, call, ret>>

User(id, username) == [id |-> id, username |-> username]

\* The data file when the server starts: none, the file of a run that stored
\* nothing, the file of a run that registered a user and stored a sale.
ResetFiles ==
  {NoFile, Data(<<AdminUser>>, <<>>),
   Data(<<AdminUser, User("user_1", "ann")>>, <<StoredEntry("s1", 100)>>)}

ResetRequests ==
  {Request("POST /api/admin/reset", <<>>, NoBody),
   Request("POST /api/sell-entries", <<"Bearer", "good">>, SellBody("s2", Num(70)))}

\* The server once the module is loaded: db.data is the default data, the
\* start-up block is suspended at its db.read(), requests arrive.
InitReset ==
  /\ sellEntries = <<>>
  /\ invoices = <<>>
  /\ otherExpenses = <<>>
  /\ expenseTypes = <<>>
  /\ tzOffset = 0
  /\ call = NoCall
  /\ ret = NoRet
  /\ NODE_ENV \in {"production", "development"}
  /\ \E file \in ResetFiles : db = [file |-> file, data |-> EmptyData, writes |-> <<>>]
  /\ \E n \in 1..MaxRequests : \E q \in [1..n -> ResetRequests] :
       reqs = <<[Request("start-up", <<>>, NoBody) EXCEPT !.pc = "ensureRead"]>> \o q

NextReset ==
  \/ \E r \in 1..(MaxRequests + 1) : AdminReset(r)
  \/ \E r \in 1..(MaxRequests + 1) : EnsureAdminRead(r)
  \/ \E r \in 1..(MaxRequests + 1) : EnsureAdminHashed(r)
  \/ \E r \in 1..(MaxRequests + 1) : EnsureAdminWritten(r)
  \/ \E r \in 1..(MaxRequests + 1) : AdminResetWritten(r)
  \/ \E r \in 1..(MaxRequests + 1) : PostSellEntry(r)
  \/ \E r \in 1..(MaxRequests + 1) : PostSellEntryRead(r)
  \/ \E r \in 1..(MaxRequests + 1) : PostSellEntryWritten(r)

SpecReset == InitReset /\ [][NextReset]_vars

\* The database of a fresh installation: the default admin and nothing else.
FreshData == Data(<<AdminUser>>, <<>>)

\* C26: when POST /api/admin/reset answers ok outside production, the
\* database, in memory and as persisted, holds no sell entries, no invoices,
\* no other expenses and exactly one user, the default admin, whatever had
\* been stored before the request.
C26_ResetClears ==
  [][\A r \in 1..Len(reqs) :
       (reqs[r].route = "POST /api/admin/reset" /\ reqs[r].pc # "done"
          /\ reqs'[r].pc = "done" /\ reqs'[r].status = 200)
         => (db'.data = FreshData /\ db'.file = FreshData)]_vars

\* The reset alone, after a start-up that found a file with a stored sale
\* and a registered user: answered ok, both still in the file.
C26_NothingCleared ==
  /\ Len(reqs) = 2
  /\ reqs[1].pc = "done"
  /\ reqs[2].route = "POST /api/admin/reset" /\ reqs[2].status = 200
  /\ db.file.sellEntries = <<StoredEntry("s1", 100)>>
  /\ Len(db.file.users) = 2
  /\ db.data = db.file

\* What the handler does guarantee: in production the reset is refused with
\* 403 and never answered ok.
C26_ProductionRefuses ==
  \A r \in 1..Len(reqs) :
    (reqs[r].route = "POST /api/admin/reset" /\ NODE_ENV = "production")
      => (reqs[r].status \in {0, 403} /\ reqs[r].pc \in {"start", "done"})

\* With no data file the reset does what it says: a lone reset answered ok
\* leaves the fresh database in memory and on disk.
C26_ResetWithoutFile ==
  /\ Len(reqs) = 2
  /\ reqs[2].route = "POST /api/admin/reset" /\ reqs[2].status = 200
  /\ reqs[1].pc = "done"
  /\ db.data = FreshData /\ db.file = FreshData /\ db.writes = <<>>

(***************************************************************************)
(* POST /api/register                                                      *)
(***************************************************************************)
RegisterBody(username, password) ==
  [name |-> "Ann", surname |-> "Lee", username |-> username, password |-> password]

\* `user_${Date.now()}`: the clock read is taken to differ from one request
\* to the next.
UserIds == <<"user_1", "user_2", "user_3", "user_4">>

HasUser(data, username) == \E k \in 1..Len(data.users) : data.users[k].username = username

\* POST /api/register arrives: 400 when a field is missing ("" standing for
\* a missing field), else await db.read().
Register(r) ==
  /\ r \in 1..Len(reqs)
  /\ reqs[r].route = "POST /api/register"
  /\ reqs[r].pc = "start"
  /\ LET body == reqs[r].body IN
     IF body.name = "" \/ body.surname = "" \/ body.username = "" \/ body.password = ""
     THEN Respond(r, 400, [error |-> "All fields are required"])
     ELSE Await(r, "read")
  /\ UNCHANGED <<sellEntries, invoices, otherExpenses, expenseTypes, tzOffset, NODE_ENV, call, ret, db>>

\* Resumed after db.read(): 400 when the username is found, else await
\* bcrypt.hash.
RegisterRead(r) ==
  /\ r \in 1..Len(reqs)
  /\ reqs[r].route = "POST /api/register"
  /\ reqs[r].pc = "read"
  /\ db' = dbRead
  /\ IF HasUser(db'.data, reqs[r].body.username)
     THEN Respond(r, 400, [error |-> "Username already exists"])
     ELSE Await(r, "hash")
  /\ UNCHANGED <<sellEntries, invoices, otherExpenses, expenseTypes, tzOffset, NODE_ENV, call, ret>>

\* Resumed after bcrypt.hash: the user is pushed and db.write() is called.
RegisterHashed(r) ==
  /\ r \in 1..Len(reqs)
  /\ reqs[r].route = "POST /api/register"
  /\ reqs[r].pc = "hash"
  /\ db' = dbWrite([db EXCEPT !.data.users = Append(@, User(UserIds[r], reqs[r].body.username))], r)
  /\ Await(r, "write")
  /\ UNCHANGED <<sellEntries, invoices, otherExpenses, expenseTypes, tzOffset, NODE_ENV, call, ret>>

\* Resumed after db.write(): 201 with the user.
RegisterWritten(r) ==
  /\ r \in 1..Len(reqs)
  /\ reqs[r].route = "POST /api/register"
  /\ reqs[r].pc = "write"
  /\ db.writes # <<>> /\ Head(db.writes).req = r
  /\ db' = dbWritten
  /\ Respond(r, 201, User(UserIds[r], reqs[r].body.username))
  /\ UNCHANGED <<sellEntries, invoices, otherExpenses, expenseTypes, tzOffset, NODE_ENV, call, ret>>

\* Registrations for two new names and for the stored name "admin", and one
\* without a password.
RegisterRequests ==
  {Request("POST /api/register", <<>>, RegisterBody(u, "pw")) : u \in {"ann", "bob", "admin"}}
    \cup {Request("POST /api/register", <<>>, RegisterBody("ann", ""))}

InitRegister ==
  /\ sellEntries = <<>>
  /\ invoices = <<>>
  /\ otherExpenses = <<>>
  /\ expenseTypes = <<>>
  /\ tzOffset = 0
  /\ call = NoCall
  /\ ret = NoRet
  /\ NODE_ENV = "development"
  /\ db \in {Started(Data(<<AdminUser>>, <<>>)),
             Started(Data(<<AdminUser, User("user_0", "bob")>>, <<>>))}
  /\ \E n \in 1..MaxRequests : reqs \in [1..n -> RegisterRequests]

NextRegister ==
  \/ \E r \in 1..MaxRequests : Register(r)
  \/ \E r \in 1..MaxRequests : RegisterRead(r)
  \/ \E r \in 1..MaxRequests : RegisterHashed(r)
  \/ \E r \in 1..MaxRequests : RegisterWritten(r)

SpecRegister == InitRegister /\ [][NextRegister]_vars

\* No two users of the data share a username.
UniqueUsernames(data) ==
  \A j, k \in 1..Len(data.users) :
    data.users[j].username = data.users[k].username => j = k

\* C27: after any interleaving of concurrent POST /api/register requests no
\* two stored users share a username; of several registrations for the same
\* username at most one is answered 201 and the others 400.
C27_UsernameUnique ==
  /\ UniqueUsernames(db.data)
  /\ UniqueUsernames(db.file)
  /\ \A q, r \in 1..Len(reqs) :
       (q # r /\ reqs[q].body.username = reqs[r].body.username
          /\ reqs[q].pc = "done" /\ reqs[r].pc = "done")
         => (/\ ~(reqs[q].status = 201 /\ reqs[r].status = 201)
             /\ {reqs[q].status, reqs[r].status} \subseteq {201, 400})

\* Two registrations for "ann" both answered 201 and both stored.
C27_TwoAnns ==
  /\ Len(reqs) = 2
  /\ \A r \in 1..2 : reqs[r].body.username = "ann" /\ reqs[r].status = 201
  /\ Len(db.file.users) = 3
  /\ db.file.users[2].username = "ann" /\ db.file.users[3].username = "ann"

\* What the handler does guarantee: a username that was stored when the
\* requests arrived is refused, and a lone registration is stored once.
C27_StoredNameRefused ==
  \A r \in 1..Len(reqs) :
    /\ HasUser(Data(<<AdminUser>>, <<>>), reqs[r].body.username) => reqs[r].status \in {0, 400}
    /\ (Len(reqs) = 1 /\ reqs[r].status = 201) =>
         (UniqueUsernames(db.file) /\ HasUser(db.file, reqs[r].body.username))

(***************************************************************************)
(* Concurrent POST /api/sell-entries with distinct ids                     *)
(***************************************************************************)
UpsertBodies ==
  {SellBody(id, amount) : id \in {"s1", "s2", "s3"}, amount \in {Num(70), Str(<<49, 50>>)}}

InitUpsert ==
  /\ sellEntries = <<>>
  /\ invoices = <<>>
  /\ otherExpenses = <<>>
  /\ expenseTypes = <<>>
  /\ tzOffset = 0
  /\ call = NoCall
  /\ ret = NoRet
  /\ NODE_ENV = "development"
  /\ db \in {Started(Data(<<AdminUser>>, <<>>)),
             Started(Data(<<AdminUser>>, <<StoredEntry("s1", 100)>>))}
  /\ \E n \in 1..MaxRequests : \E bodies \in [1..n -> UpsertBodies] :
       /\ \A j, k \in 1..n : bodies[j].id = bodies[k].id => j = k
       /\ reqs = [k \in 1..n |-> Request("POST /api/sell-entries", <<"Bearer", "good">>, bodies[k])]

NextUpsert ==
  \/ \E r \in 1..MaxRequests : PostSellEntry(r)
  \/ \E r \in 1..MaxRequests : PostSellEntryRead(r)
  \/ \E r \in 1..MaxRequests : PostSellEntryWritten(r)

SpecUpsert == InitUpsert /\ [][NextUpsert]_vars

AllCompleted == db.writes = <<>> /\ \A r \in 1..Len(reqs) : reqs[r].pc = "done"

UniqueIds(entries) ==
  \A j, k \in 1..Len(entries) : entries[j].id = entries[k].id => j = k

\* C28: for any interleaving of concurrent POST /api/sell-entries requests
\* with distinct ids, every entry whose request was answered 201 is present
\* in the stored sellEntries once all requests have completed, and no two
\* stored entries share an id.
C28_UpsertDurable ==
  AllCompleted =>
    /\ \A r \in 1..Len(reqs) :
         reqs[r].status = 201 =>
           \E k \in 1..Len(db.file.sellEntries) :
             db.file.sellEntries[k] = entryOf(reqs[r].body)
    /\ UniqueIds(db.file.sellEntries)

\* Two entries answered 201, only the second in the file.
C28_LostEntry ==
  /\ AllCompleted
  /\ Len(reqs) = 2
  /\ reqs[1].status = 201 /\ reqs[2].status = 201
  /\ reqs[1].body.id = "s2" /\ reqs[2].body.id = "s3"
  /\ db.file.sellEntries = <<entryOf(reqs[2].body)>>
  /\ db.data = db.file

\* What the handler does guarantee: stored ids stay unique, and a request
\* that runs alone is stored.
C28_UniqueIdsAndLoneRequest ==
  /\ UniqueIds(db.file.sellEntries) /\ UniqueIds(db.data.sellEntries)
  /\ (AllCompleted /\ Len(reqs) = 1) =>
       \E k \in 1..Len(db.file.sellEntries) :
         db.file.sellEntries[k] = entryOf(reqs[1].body)

(***************************************************************************)
(* The payment modal                                                       *)
(*                                                                         *)
(* call holds the modal: the target written to the form's dataset and the  *)
(* targets of the listener triples (onSubmit, onRemove, onClose) that are  *)
(* registered on the form and its buttons, in order of registration.  ""   *)
(* stands for an empty or unset field.                                     *)
(***************************************************************************)
MaxOpen == 2

Target(type, id) == [type |-> type, id |-> id]

PaymentRecord(id) == [id |-> id, paymentMethod |-> "", paymentDate |-> ""]

PaymentMethods == {"", "cash", "card"}

PaymentDates == {"", "2024-03-01"}

\* The records that show a payment button.
Targets ==
  {Target("invoice", invoices[k].id) : k \in 1..Len(invoices)}
    \cup {Target("other", otherExpenses[k].id) : k \in 1..Len(otherExpenses)}

\* rec.paymentMethod = method; rec.paymentDate = method ? date : '' on the
\* first record with the id, if any.
setPaymentIn(recs, id, method, date) ==
  IF \E k \in 1..Len(recs) : recs[k].id = id
  THEN LET k == CHOOSE k \in 1..Len(recs) :
                  recs[k].id = id /\ \A j \in 1..(k - 1) : recs[j].id # id
       IN [recs EXCEPT ![k].paymentMethod = method,
                       ![k].paymentDate = IF method # "" THEN date ELSE ""]
  ELSE recs

\* setPaymentState(target, method, date) on the ledger l.
setPaymentState(l, target, method, date) ==
  IF target.type = "invoice"
  THEN [l EXCEPT !.invoices = setPaymentIn(@, target.id, method, date)]
  ELSE IF target.type = "other"
  THEN [l EXCEPT !.otherExpenses = setPaymentIn(@, target.id, method, date)]
  ELSE l

\* An event dispatched to the registered listeners, oldest first: each calls
\* setPaymentState for the target it was registered with.
RECURSIVE dispatch(_, _, _, _)
dispatch(l, listeners, method, date) ==
  IF listeners = <<>> THEN l
  ELSE dispatch(setPaymentState(l, Head(listeners), method, date), Tail(listeners), method, date)

Listeners == IF call.fn = "openPaymentModal" THEN call.listeners ELSE <<>>

InitPayment ==
  /\ sellEntries = <<>>
  /\ expenseTypes = <<>>
  /\ \E a \in 0..MaxLedger : \E b \in 0..(MaxLedger - a) :
       /\ a + b >= 1
       /\ invoices = [k \in 1..a |-> PaymentRecord(<<"inv", k>>)]
       /\ otherExpenses = [k \in 1..b |-> PaymentRecord(<<"oex", k>>)]
  /\ tzOffset = 0
  /\ db = NoDb
  /\ NODE_ENV = ""
  /\ reqs = <<>>
  /\ call = NoCall
  /\ ret = NoRet

\* A payment button is clicked: the target is written to the form and a new
\* triple of listeners is registered.
openPaymentModal(target) ==
  /\ Len(Listeners) < MaxOpen
  /\ call' = [fn |-> "openPaymentModal", target |-> target,
              listeners |-> Append(Listeners, target)]
  /\ UNCHANGED <<sellEntries, invoices, otherExpenses, expenseTypes, tzOffset, NODE_ENV, ret, db, reqs>>

\* The form is submitted with the method and the date of its inputs: every
\* registered onSubmit saves them and removes its triple.
PaymentSubmit(method, date) ==
  /\ call.fn = "openPaymentModal"
  /\ \E l \in {dispatch([invoices |-> invoices, otherExpenses |-> otherExpenses],
                         call.listeners, method, date)} :
       invoices' = l.invoices /\ otherExpenses' = l.otherExpenses
  /\ ret' = [event |-> "submit", target |-> call.target]
  /\ call' = NoCall
  /\ UNCHANGED <<sellEntries, expenseTypes, tzOffset, NODE_ENV, db, reqs>>

\* The remove button is clicked: every registered onRemove calls
\* setPaymentState(target, '', '') and removes its triple.
PaymentRemove ==
  /\ call.fn = "openPaymentModal"
  /\ \E l \in {dispatch([invoices |-> invoices, otherExpenses |-> otherExpenses],
                         call.listeners, "", "")} :
       invoices' = l.invoices /\ otherExpenses' = l.otherExpenses
  /\ ret' = [event |-> "remove", target |-> call.target]
  /\ call' = NoCall
  /\ UNCHANGED <<sellEntries, expenseTypes, tzOffset, NODE_ENV, db, reqs>>

\* The close button is clicked: every registered onClose removes its triple.
PaymentClose ==
  /\ call.fn = "openPaymentModal"
  /\ ret' = [event |-> "close", target |-> call.target]
  /\ call' = NoCall
  /\ UNCHANGED <<sellEntries, invoices, otherExpenses, expenseTypes, tzOffset, NODE_ENV, db, reqs>>

NextPayment ==
  \/ \E target \in Targets : openPaymentModal(target)
  \/ \E method \in PaymentMethods : \E date \in PaymentDates : PaymentSubmit(method, date)
  \/ PaymentRemove
  \/ PaymentClose

SpecPayment == InitPayment /\ [][NextPayment]_vars

\* A record without a payment method has no payment date.
NoDateWithoutMethod(recs) ==
  \A k \in 1..Len(recs) : recs[k].paymentMethod = "" => recs[k].paymentDate = ""

\* The records of the next state other than the target are as they were.
OthersUntouched(target) ==
  /\ \A k \in 1..Len(invoices) :
       (target.type # "invoice" \/ invoices[k].id # target.id) => invoices'[k] = invoices[k]
  /\ \A k \in 1..Len(otherExpenses) :
       (target.type # "other" \/ otherExpenses[k].id # target.id)
         => otherExpenses'[k] = otherExpenses[k]

\* Both payment fields of the target are empty in the next state.
TargetCleared(target) ==
  /\ \A k \in 1..Len(invoices) :
       (target.type = "invoice" /\ invoices[k].id = target.id)
         => (invoices'[k].paymentMethod = "" /\ invoices'[k].paymentDate = "")
  /\ \A k \in 1..Len(otherExpenses) :
       (target.type = "other" /\ otherExpenses[k].id = target.id)
         => (otherExpenses'[k].paymentMethod = "" /\ otherExpenses'[k].paymentDate = "")

\* C29: in every state reached through the payment modal a record whose
\* paymentMethod is empty has an empty paymentDate; removing a payment
\* clears both fields of the record the modal shows and changes no other
\* record.
C29_PaymentState ==
  /\ [](NoDateWithoutMethod(invoices) /\ NoDateWithoutMethod(otherExpenses))
  /\ [][(call.fn = "openPaymentModal" /\ call' = NoCall /\ ret'.event = "remove")
          => (TargetCleared(call.target) /\ OthersUntouched(call.target))]_vars

\* The half that holds: no record has a date without a method, and a remove
\* clears the record the modal shows.
C29_NoDateWithoutMethod ==
  /\ [](NoDateWithoutMethod(invoices) /\ NoDateWithoutMethod(otherExpenses))
  /\ [][(call.fn = "openPaymentModal" /\ call' = NoCall /\ ret'.event = "remove")
          => TargetCleared(call.target)]_vars

\* While at most one triple of listeners is registered, a remove changes
\* the shown record only.
C29_SingleListener ==
  [][(call.fn = "openPaymentModal" /\ call' = NoCall /\ ret'.event = "remove"
        /\ Len(call.listeners) = 1)
       => OthersUntouched(call.target)]_vars

(***************************************************************************)
(* renderDashboard: the totals of the report and the series of the charts  *)
(***************************************************************************)
\* (!fromDate || date >= fromDate) && (!toDate || date <= toDate)
inFilter(date, fromDate, toDate) ==
  /\ (fromDate = <<>> \/ ~StrLess(date, fromDate))
  /\ (toDate = <<>> \/ ~StrGreater(date, toDate))

\* state.sellEntries.filter(e => e.type === type && ...).reduce(...)
salesOfType(type, fromDate, toDate) ==
  SeqSum([k \in 1..Len(sellEntries) |->
            IF sellEntries[k].type = type /\ inFilter(sellEntries[k].date, fromDate, toDate)
            THEN parseNumber(sellEntries[k].amount) ELSE 0])

renderDashboard(fromDate, toDate) ==
  LET fiscalSales == salesOfType("fiscal", fromDate, toDate)
      nonFiscalSales == salesOfType("non-fiscal", fromDate, toDate)
      totalPurchases ==
        SeqSum([k \in 1..Len(invoices) |->
                  IF inFilter(invoices[k].invoiceDate, fromDate, toDate)
                  THEN computeInvoiceTotal(invoices[k].items) ELSE 0])
      totalOtherExpenses ==
        SeqSum([k \in 1..Len(otherExpenses) |->
                  IF inFilter(otherExpenses[k].date, fromDate, toDate)
                  THEN parseNumber(otherExpenses[k].amount) ELSE 0])
  IN [fiscalSales |-> fiscalSales,
      nonFiscalSales |-> nonFiscalSales,
      totalSales |-> fiscalSales + nonFiscalSales,
      totalPurchases |-> totalPurchases,
      totalOtherExpenses |-> totalOtherExpenses,
      totalExpenses |-> totalPurchases + totalOtherExpenses,
      netResult |-> (fiscalSales + nonFiscalSales) - (totalPurchases + totalOtherExpenses),
      sellSeries |-> aggregateByMonthSell(fromDate, toDate),
      expensesSeries |-> aggregateByMonthExpenses(fromDate, toDate)]

DashDates == {<<>>, DateStr(2024, 1, 15), DateStr(2024, 2, 1)}

\* Sales as the forms store them, and one whose type was typed into the
\* legacy edit prompt or came with an imported file.
DashSales ==
  {Sale(d, t, Num(100)) : d \in DashDates, t \in {"fiscal", "non-fiscal", "Fiscal"}}
    \cup {Sale(DateStr(2024, 1, 15), "fiscal", Str(<<49, 50>>))}

DashInvoices == {Invoice(d, Str(STR_product), PLItems) : d \in DashDates}

DashExpenses == {OtherExpense(d, "rent", Num(50)) : d \in DashDates}

InitDashboard ==
  /\ \E a \in 0..MaxLedger : \E b \in 0..(MaxLedger - a) : \E c \in 0..(MaxLedger - a - b) :
       /\ sellEntries \in [1..a -> DashSales]
       /\ invoices \in [1..b -> DashInvoices]
       /\ otherExpenses \in [1..c -> DashExpenses]
  /\ expenseTypes = <<ExpenseType("rent", "Rent")>>
  /\ tzOffset \in TzOffsets
  /\ db = NoDb
  /\ NODE_ENV = ""
  /\ reqs = <<>>
  /\ call = NoCall
  /\ ret = NoRet

\* The dashboard is rendered for the filter of state.dashboardFilters.
RenderDashboard(fromDate, toDate) ==
  /\ call = NoCall
  /\ call' = [fn |-> "renderDashboard", fromDate |-> fromDate, toDate |-> toDate]
  /\ \E out \in {renderDashboard(fromDate, toDate)} : ret' = out
  /\ UNCHANGED <<sellEntries, invoices, otherExpenses, expenseTypes, tzOffset, NODE_ENV, db, reqs>>

NextDashboard ==
  \E fromDate \in AggFromDates, toDate \in AggToDates : RenderDashboard(fromDate, toDate)

SpecDashboard == InitDashboard /\ [][NextDashboard]_vars

IsDashboard == call.fn = "renderDashboard"

\* C30: for any ledger and any filter bounds the dashboard's total sales
\* equals the sum of all values of the fiscal and non-fiscal series of
\* aggregateByMonthSell for the same bounds, and totalPurchases and
\* totalOtherExpenses equal the sums of the purchases and expenses series
\* of aggregateByMonthExpenses.
C30_TotalsAgreeWithCharts ==
  IsDashboard =>
    /\ ret.totalSales = SeqSum(ret.sellSeries.fiscal.values)
                          + SeqSum(ret.sellSeries.nonFiscal.values)
    /\ ret.totalPurchases = SeqSum(ret.expensesSeries.purchases.values)
    /\ ret.totalOtherExpenses = SeqSum(ret.expensesSeries.expenses.values)

\* What does agree: the fiscal total with the fiscal series, the purchases
\* and the other expenses with their series, and the total sales with both
\* sales series when every sale is typed "fiscal" or "non-fiscal".
C30_TotalsAgreeForKnownTypes ==
  IsDashboard =>
    /\ ret.fiscalSales = SeqSum(ret.sellSeries.fiscal.values)
    /\ ret.totalPurchases = SeqSum(ret.expensesSeries.purchases.values)
    /\ ret.totalOtherExpenses = SeqSum(ret.expensesSeries.expenses.values)
    /\ (\A k \in 1..Len(sellEntries) : sellEntries[k].type \in {"fiscal", "non-fiscal"})
         => ret.totalSales = SeqSum(ret.sellSeries.fiscal.values)
                               + SeqSum(ret.sellSeries.nonFiscal.values)

\* A sale typed "Fiscal" alone, no filter: total sales 0, the non-fiscal
\* series 100 in January.
C30_UncountedSale ==
  /\ IsDashboard
  /\ call.fromDate = <<>> /\ call.toDate = <<>>
  /\ Len(sellEntries) = 1 /\ sellEntries[1].type = "Fiscal"
  /\ sellEntries[1].date = DateStr(2024, 1, 15)
  /\ ret.totalSales = 0
  /\ ret.sellSeries.nonFiscal.values = <<100>>

====
